---- MODULE Spec2Model ----
(***************************************************************************)
(* A model of the match pipeline: the merge stage of step2.py (odds        *)
(* selection, minute filter, odds conversion, foreign-key resolution) and  *)
(* the bounded history file of step27.py.                                  *)
(*                                                                         *)
(* Each component has its own specification over the shared variables:     *)
(*   SpecHistory  step27.save_match_summaries on one history file          *)
(*   SpecFilter   step2.filter_odds_by_minutes                             *)
(*   SpecConv     step2.convert_*_to_american and convert_odds_array       *)
(*   SpecMerge    step2.merge_and_summarize                                *)
(*   SpecStep7    the status filter of step7.py and step7_rich.py          *)
(*   SpecPid      the PID-file lock of step1.py                            *)
(*   SpecFetch    step1.fetch_json                                         *)
(*   SpecStage    step2.main and step27.extract_merge_summarize            *)
(*   SpecSort     sort_matches_by_competition_and_time of step7, step27    *)
(*   SpecLoop     step1.continuous_loop                                    *)
(*   SpecCount    the in-play counts of step1.py and of Step 7             *)
(*   SpecMinutes  filter_odds_minutes.py and verify_filtering.py           *)
(*   SpecAlign    the native and American arrays of one summary            *)
(*   SpecScore    the score string of step2.extract_summary_fields         *)
(* The variables of the other components stay at their idle values.        *)
(***************************************************************************)
EXTENDS Integers, Sequences, FiniteSets, TLC

VARIABLES
    pc,              \* position of the component under check
    file_kind,       \* step27.json on disk: "missing", "corrupt" or "doc"
    history,         \* data["history"] of the document on disk
    clock,           \* number of save_match_summaries calls so far
    appended,        \* timestamps of the batches written successfully, in order
    save_result,     \* return value of the last call: "none", "True", "False"
    odd,             \* argument of convert_decimal/hong_kong_to_american
    american_dec,    \* result of convert_decimal_to_american(odd)
    american_hk,     \* result of convert_hong_kong_to_american(odd)
    odds_array,      \* argument of convert_odds_array
    odds_type,       \* argument of convert_odds_array
    american_arrays, \* second component of convert_odds_array's result
    odds_data,       \* argument of filter_odds_by_minutes: market -> arrays
    filtered_odds,   \* filter_odds_by_minutes(odds_data)
    refiltered_odds, \* filter_odds_by_minutes(filtered_odds)
    live_matches,    \* argument of merge_and_summarize: the raw matches
    match_details,   \* argument: match id -> detail wrapper
    match_odds,      \* argument: match id -> odds wrapper
    summaries,       \* the list merge_and_summarize returns
    merge_raised,    \* TRUE when merge_and_summarize ended by an exception
    summaries_list,  \* argument of run_step7 and of filter_inplay_matches
    filtered,        \* run_step7: match id -> summary, after the status filter
    inplay_matches,  \* result of step7_rich.filter_inplay_matches
    pid_file,        \* step1.pid: whether it exists, and the pid it holds (0: not a pid)
    proc_pc,         \* position of each step1 process
    proc_mode,       \* "single" or "continuous" (--continuous), per process
    existing_pid,    \* create_pid_file's local existing_pid, per process
    handle_valid,    \* the file a process opened for writing is still step1.pid
    handler_set,     \* signal_handler is registered for SIGTERM, per process
    shutdown_flag,   \* step1.shutdown_flag, per process
    lock_created,    \* the process has created step1.pid
    countries_doc,   \* the "countries" value of step1.json
    step2_result,    \* step2.main: whether it raised, and its summaries
    step27_result,   \* step27.extract_merge_summarize: its summaries and errors
    env_credentials, \* THESPORTS_USER and THESPORTS_SECRET are set in the environment
    credentials,     \* where USER and SECRET come from: "unset", "env" or "fallback"
    attempt,         \* fetch_json: the loop variable
    requests_made,   \* number of requests the call has issued
    sleeps,          \* the backoff sleeps of the call, in seconds, in order
    responses,       \* what each request of the call met, in order
    fetch_result,    \* how fetch_json ended: "none" while it runs
    matches_dict,    \* argument of sort_matches_by_competition_and_time, in dict order
    step7_groups,    \* result of step7.sort_matches_by_competition_and_time
    step27_groups,   \* result of step27.sort_matches_by_competition_and_time
    shutdown_requested, \* continuous_loop: step1.shutdown_flag
    cycle,           \* continuous_loop: number of cycles started
    completed,       \* continuous_loop: number of cycles that reached the sleep
    caught,          \* continuous_loop: exceptions caught and logged so far
    cycle_summaries, \* the cycle's local summaries: 0 for [], else the batch's cycle
    step2_json,      \* the batches in the history of step2.json, oldest first
    displayed,       \* the batch Step 7 has displayed in this cycle, 0 for none
    sleep_time,      \* seconds left of the 60 when the cycle ended
    sleep_elapsed,   \* seconds slept so far
    live_data,       \* live_data["results"]: the matches of the live feed with their details
    in_play_matches, \* create_unified_status_summary(live_data)["in_play_matches"]
    footer_in_play,  \* in_play_count of create_comprehensive_footer
    step7_total,     \* run_step7: len(filtered) for the summaries of live_data
    company_odds,    \* argument of filter_odds_minutes.filter_odds_by_minutes
    kept_odds,       \* its result, written back to step2.json
    invalid_entries, \* verify_filtering: the entries it reports outside 2..6
    extracted_odds,  \* merge_and_summarize: raw_odds = extract_odds(match)
    odds_summary,    \* the odds fields merge_and_summarize gives the summary
    home_scores,     \* match["home_scores"]: whether the key is there, and its list
    away_scores,     \* match["away_scores"], likewise
    summary_score    \* the "score" of step2.extract_summary_fields(match)

hist_vars == <<file_kind, history, clock, appended, save_result>>

conv_vars == <<odd, american_dec, american_hk, odds_array, odds_type, american_arrays>>

filter_vars == <<odds_data, filtered_odds, refiltered_odds>>

merge_vars == <<live_matches, match_details, match_odds, summaries, merge_raised>>

core_vars == <<hist_vars, conv_vars, filter_vars, merge_vars>>

step7_vars == <<summaries_list, filtered, inplay_matches>>

pid_vars ==
    <<pid_file, proc_pc, proc_mode, existing_pid, handle_valid, handler_set, shutdown_flag,
      lock_created>>

stage_vars == <<countries_doc, step2_result, step27_result>>

fetch_vars ==
    <<env_credentials, credentials, attempt, requests_made, sleeps, responses, fetch_result>>

sort_vars == <<matches_dict, step7_groups, step27_groups>>

loop_vars ==
    <<shutdown_requested, cycle, completed, caught, cycle_summaries, step2_json, displayed,
      sleep_time, sleep_elapsed>>

count_vars == <<live_data, in_play_matches, footer_in_play, step7_total>>

minutes_vars == <<company_odds, kept_odds, invalid_entries>>

align_vars == <<extracted_odds, odds_summary>>

score_vars == <<home_scores, away_scores, summary_score>>

tail_vars == <<count_vars, minutes_vars, align_vars, score_vars>>

extra_vars == <<sort_vars, loop_vars, tail_vars>>

pipeline_vars == <<step7_vars, pid_vars, stage_vars, fetch_vars, extra_vars>>

\* The variables of the components other than the ones of extra_vars.
base_vars == <<core_vars, step7_vars, pid_vars, stage_vars, fetch_vars>>

\* What the actions of one component leave alone.
outside_step7 == <<core_vars, pid_vars, stage_vars, fetch_vars, extra_vars>>

outside_pid == <<pc, core_vars, step7_vars, stage_vars, fetch_vars, extra_vars>>

outside_stage == <<core_vars, step7_vars, pid_vars, fetch_vars, extra_vars>>

outside_sort == <<base_vars, loop_vars, tail_vars>>

outside_loop == <<base_vars, sort_vars, tail_vars>>

outside_count == <<base_vars, sort_vars, loop_vars, minutes_vars, align_vars, score_vars>>

outside_minutes == <<base_vars, sort_vars, loop_vars, count_vars, align_vars, score_vars>>

outside_align == <<base_vars, sort_vars, loop_vars, count_vars, minutes_vars, score_vars>>

outside_score == <<base_vars, sort_vars, loop_vars, count_vars, minutes_vars, align_vars>>

outside_fetch == <<core_vars, step7_vars, pid_vars, stage_vars, extra_vars>>

vars == <<pc, core_vars, pipeline_vars>>

(***************************************************************************)
(* Bounds of the model                                                     *)
(***************************************************************************)
MaxSaves == 8        \* calls of save_match_summaries in one behaviour
MaxHundredths == 650 \* the grid of odds runs up to 6.50 ...
MaxNegHundredths == 20 \* ... and down to -0.20
MaxArrayLen == 1     \* entries in an argument of convert_odds_array
MaxEntries == 3      \* entries, over all markets, in an argument of the filter
MaxMatches == 1      \* matches in an argument of merge_and_summarize
MaxSummaries == 2    \* summaries in an argument of the status filter
MaxMinuteEntries == 2 \* entries, over both markets, in an argument of the stand-alone filter
MaxAlignEntries == 2 \* entries, over all markets, of the company a summary's odds come from
MaxScoreLen == 2     \* numbers in a home_scores or away_scores list
MaxLive == 2         \* matches of a batch the in-play counts are taken of
MaxBatch == 2        \* matches of the step1.json the merge stages run on
MaxSortMatches == 3  \* matches in an argument of sort_matches_by_competition_and_time
MaxCycles == 3       \* cycles of continuous_loop in one behaviour
MaxSleep == 2        \* seconds left to sleep at the end of a cycle

(***************************************************************************)
(* JSON values.  A float is held in hundredths (1.66 is Num(166)); a       *)
(* string is its sequence of characters.                                   *)
(***************************************************************************)
Null == [t |-> "null", n |-> 0, s |-> <<>>]

Num(k) == [t |-> "num", n |-> k, s |-> <<>>]

IntV(i) == [t |-> "int", n |-> i, s |-> <<>>]

Str(chars) == [t |-> "str", n |-> 0, s |-> chars]

\* A string nothing looks into (a name), held as one token.
Text(word) == Str(<<word>>)

\* The value of a key a dict does not hold.
Absent == [t |-> "absent", n |-> 0, s |-> <<>>]

\* dict.get(key, default), for the value x of the key.
OrDefault(x, default) == IF x = Absent THEN default ELSE x

\* Python's truth value of a JSON value.
Truthy(x) ==
    CASE x.t \in {"absent", "null"} -> FALSE
      [] x.t = "str" -> x.s # <<>>
      [] x.t \in {"int", "num"} -> x.n # 0

\* A dict with computed keys, as the list of its items.
DictHas(dict, key) == \E i \in 1..Len(dict) : dict[i].key = key

DictGet(dict, key) == dict[CHOOSE i \in 1..Len(dict) : dict[i].key = key].value

Item(key, value) == [key |-> key, value |-> value]

DigitChars == <<"0", "1", "2", "3", "4", "5", "6", "7", "8", "9">>

IsDigit(c) == \E i \in 1..10 : DigitChars[i] = c

DigitVal(c) == (CHOOSE i \in 1..10 : DigitChars[i] = c) - 1

AllDigits(chars) == \A i \in 1..Len(chars) : IsDigit(chars[i])

\* The value of a non-empty sequence of decimal digits.
RECURSIVE DigitsValue(_)
DigitsValue(chars) ==
    IF chars = <<>> THEN 0
    ELSE 10 * DigitsValue(SubSeq(chars, 1, Len(chars) - 1)) + DigitVal(chars[Len(chars)])

\* str(n) for a natural number n.
RECURSIVE NatToStr(_)
NatToStr(n) ==
    IF n < 10 THEN <<DigitChars[n + 1]>>
    ELSE Append(NatToStr(n \div 10), DigitChars[(n % 10) + 1])

\* The four markets of a summary (lines 384-387, 561).
ODDS_TYPES == {"money_line", "spread", "over_under", "corners"}

\* A mapping market -> arrays, as extract_odds builds it (lines 383-388).
OddsMapping(ml, sp, ou, cr) ==
    [money_line |-> ml, spread |-> sp, over_under |-> ou, corners |-> cr]

NoOdds == OddsMapping(<<>>, <<>>, <<>>, <<>>)

(***************************************************************************)
(* step2.py: odds conversion                                               *)
(***************************************************************************)
\* Strings float() accepts, of the shapes "12" and "1.50"; every other
\* string of the model makes float() raise ValueError.
IsDecimalLiteral(chars) ==
    \/ /\ Len(chars) >= 1
       /\ AllDigits(chars)
    \/ /\ Len(chars) >= 4
       /\ chars[Len(chars) - 2] = "."
       /\ AllDigits(SubSeq(chars, 1, Len(chars) - 3))
       /\ AllDigits(SubSeq(chars, Len(chars) - 1, Len(chars)))

\* float(x) succeeds (no ValueError, no TypeError).
IsFloatable(x) ==
    \/ x.t \in {"num", "int"}
    \/ x.t = "str" /\ IsDecimalLiteral(x.s)

\* float(x), in hundredths.
FloatHundredths(x) ==
    IF x.t = "num" THEN x.n
    ELSE IF x.t = "int" THEN 100 * x.n
    ELSE IF AllDigits(x.s) THEN 100 * DigitsValue(x.s)
    ELSE 100 * DigitsValue(SubSeq(x.s, 1, Len(x.s) - 3))
            + DigitsValue(SubSeq(x.s, Len(x.s) - 1, Len(x.s)))

\* int(round(num / den)) for den > 0: Python rounds halves to even.
RoundHalfEven(num, den) ==
    LET q == num \div den
        r == num % den
    IN  IF 2 * r > den THEN q + 1
        ELSE IF 2 * r < den THEN q
        ELSE IF q % 2 = 0 THEN q ELSE q + 1

\* int(round(num / den)) for any den # 0.
RoundQuotient(num, den) ==
    IF den > 0 THEN RoundHalfEven(num, den) ELSE RoundHalfEven(-num, -den)

\* Variant: the branch test is d > 2.00, so 2.00 takes the negative branch.
convert_decimal_strict_boundary(decimal_odd) ==
    IF ~IsFloatable(decimal_odd) THEN Null
    ELSE LET d == FloatHundredths(decimal_odd)
         IN  IF d > 200 THEN IntV(RoundQuotient((d - 100) * 100, 100))
             ELSE IF d >= 100
             THEN IF d - 100 = 0 THEN Null
                  ELSE IntV(RoundQuotient(-100 * 100, d - 100))
             ELSE Null

\* convert_decimal_to_american, lines 448-462.
convert_decimal_to_american(decimal_odd) ==
    IF ~IsFloatable(decimal_odd) THEN Null
    ELSE LET d == FloatHundredths(decimal_odd)
         IN  IF d >= 200 THEN IntV(RoundQuotient((d - 100) * 100, 100))
             ELSE IF d >= 100
             THEN IF d - 100 = 0 THEN Null   \* ZeroDivisionError
                  ELSE IntV(RoundQuotient(-100 * 100, d - 100))
             ELSE Null

\* Variant: int() without round(), which truncates towards zero.
convert_hong_kong_truncating(hk_odd) ==
    IF ~IsFloatable(hk_odd) THEN Null
    ELSE LET h == FloatHundredths(hk_odd)
         IN  IF h >= 100 THEN IntV((h * 100) \div 100)
             ELSE IF h > 0 THEN IntV(0 - (10000 \div h))
             ELSE Null

\* convert_hong_kong_to_american, lines 464-478.
convert_hong_kong_to_american(hk_odd) ==
    IF ~IsFloatable(hk_odd) THEN Null
    ELSE LET h == FloatHundredths(hk_odd)
         IN  IF h >= 100 THEN IntV(RoundQuotient(h * 100, 100))
             ELSE IF h > 0 THEN IntV(RoundQuotient(-100 * 100, h))
             ELSE Null

\* int(value) of an int or a float (held in hundredths): truncation
\* towards zero.
PyInt(value) ==
    IF value.t = "int" THEN value.n
    ELSE IF value.n >= 0 THEN value.n \div 100
    ELSE 0 - ((0 - value.n) \div 100)

\* str(i) of an integer.
IntToStr(i) == IF i < 0 THEN <<"-">> \o NatToStr(0 - i) ELSE NatToStr(i)

\* Variant: str(int(value)) for every value, so no '+' on a positive one.
format_american_no_plus(value, is_middle_value, type) ==
    IF value.t = "null" THEN value
    ELSE IF is_middle_value /\ type # "money_line" THEN value
    ELSE IF value.t \in {"int", "num"}
    THEN Str(IntToStr(PyInt(value)))
    ELSE value

\* Variant: the middle value is formatted like the two odds.
format_american_line_too(value, is_middle_value, type) ==
    IF value.t = "null" THEN value
    ELSE IF value.t \in {"int", "num"}
    THEN IF value.n > 0 THEN Str(<<"+">> \o IntToStr(PyInt(value)))
         ELSE Str(IntToStr(PyInt(value)))
    ELSE value

\* format_american, lines 520-528: an int or a float is formatted, the sign
\* test being on the value itself; anything else is returned as it is.
format_american(value, is_middle_value, type) ==
    IF value.t = "null" THEN value
    ELSE IF is_middle_value /\ type # "money_line" THEN value
    ELSE IF value.t \in {"int", "num"}
    THEN IF value.n > 0 THEN Str(<<"+">> \o IntToStr(PyInt(value)))
         ELSE Str(IntToStr(PyInt(value)))
    ELSE value

\* Lines 495-541: the American entry of one entry of at least 8 elements.
american_entry(odds_entry, type) ==
    LET american1 == IF type = "money_line"
                     THEN convert_decimal_to_american(odds_entry[3])
                     ELSE convert_hong_kong_to_american(odds_entry[3])
        american2 == IF type = "money_line"
                     THEN convert_decimal_to_american(odds_entry[4])
                     ELSE odds_entry[4]
        american3 == IF type = "money_line"
                     THEN convert_decimal_to_american(odds_entry[5])
                     ELSE convert_hong_kong_to_american(odds_entry[5])
    IN  << odds_entry[1], odds_entry[2],
           format_american(american1, FALSE, type),
           format_american(american2, TRUE, type),
           format_american(american3, FALSE, type),
           odds_entry[6], odds_entry[7], odds_entry[8] >>

LongEnough(odds_entry) == Len(odds_entry) >= 8

\* convert_odds_array, lines 480-543: the american_arrays it returns (the
\* first component of the result is the argument itself).
RECURSIVE convert_odds_array(_, _)
convert_odds_array(array, type) ==
    IF array = <<>> THEN <<>>
    ELSE LET rest == convert_odds_array(Tail(array), type)
         IN  IF LongEnough(Head(array))
             THEN <<american_entry(Head(array), type)>> \o rest
             ELSE rest

(***************************************************************************)
(* step2.py: the minute filter                                             *)
(***************************************************************************)
MIN_MINUTE == 2

MAX_MINUTE == 6

\* Line 573: int(minute_field) if minute_field != "" else -1.  ok is FALSE
\* where int() raises ValueError or TypeError.
ParseMinute(minute_field) ==
    IF minute_field.t = "str"
    THEN IF minute_field.s = <<>> THEN [ok |-> TRUE, v |-> 0 - 1]
         ELSE IF AllDigits(minute_field.s)
         THEN [ok |-> TRUE, v |-> DigitsValue(minute_field.s)]
         ELSE [ok |-> FALSE, v |-> 0]
    ELSE IF minute_field.t = "int" THEN [ok |-> TRUE, v |-> minute_field.n]
    ELSE IF minute_field.t = "num"
    THEN [ok |-> TRUE,
          v |-> IF minute_field.n >= 0 THEN minute_field.n \div 100
                ELSE 0 - ((0 - minute_field.n) \div 100)]
    ELSE [ok |-> FALSE, v |-> 0]

\* Lines 566-583: the positions of the arrays grouped under minute m.
MinuteGroup(arrays, m) ==
    {i \in 1..Len(arrays) :
        /\ Len(arrays[i]) >= 2
        /\ ParseMinute(arrays[i][2]).ok
        /\ ParseMinute(arrays[i][2]).v = m}

\* Lines 589-590: sorted(..., key=lambda x: x[0])[-1].  The sort is stable,
\* so among equal timestamps the last one of the input is taken.
LastOfMinute(arrays, group) ==
    LET top == CHOOSE i \in group : \A j \in group : arrays[j][1].n <= arrays[i][1].n
        best == CHOOSE i \in group :
                    /\ arrays[i][1].n = arrays[top][1].n
                    /\ \A j \in group : arrays[j][1].n = arrays[top][1].n => j <= i
    IN  arrays[best]

\* Lines 586-590: one entry per minute, minutes ascending from m.
RECURSIVE KeepFrom(_, _, _)
KeepFrom(arrays, m, max_minute) ==
    IF m > max_minute THEN <<>>
    ELSE LET group == MinuteGroup(arrays, m)
             rest == KeepFrom(arrays, m + 1, max_minute)
         IN  IF group = {} THEN rest
             ELSE <<LastOfMinute(arrays, group)>> \o rest

\* Variant: every entry inside the window is kept, in minute order.
RECURSIVE KeepAllFrom(_, _, _)
KeepAllFrom(arrays, m, max_minute) ==
    IF m > max_minute THEN <<>>
    ELSE SelectSeq(arrays, LAMBDA a : Len(a) >= 2 /\ ParseMinute(a[2]).ok
                                       /\ ParseMinute(a[2]).v = m)
            \o KeepAllFrom(arrays, m + 1, max_minute)

FilterMarket_no_dedup(arrays, min_minute, max_minute) ==
    KeepAllFrom(arrays, min_minute, max_minute)

\* Variant: the entry with the lowest timestamp of each minute is kept.
RECURSIVE KeepFirstFrom(_, _, _)
KeepFirstFrom(arrays, m, max_minute) ==
    IF m > max_minute THEN <<>>
    ELSE LET group == MinuteGroup(arrays, m)
             rest == KeepFirstFrom(arrays, m + 1, max_minute)
             low == CHOOSE i \in group : \A j \in group : arrays[i][1].n <= arrays[j][1].n
         IN  IF group = {} THEN rest ELSE <<arrays[low]>> \o rest

FilterMarket_first_of_minute(arrays, min_minute, max_minute) ==
    KeepFirstFrom(arrays, min_minute, max_minute)

\* Variant: the minutes are walked in reverse order of their first appearance
\* in the input instead of in sorted order.
RECURSIVE KeepReversed(_, _, _, _)
KeepReversed(arrays, i, min_minute, max_minute) ==
    IF i > Len(arrays) THEN <<>>
    ELSE LET rest == KeepReversed(arrays, i + 1, min_minute, max_minute)
             m == ParseMinute(arrays[i][2]).v
         IN  IF /\ Len(arrays[i]) >= 2
                /\ ParseMinute(arrays[i][2]).ok
                /\ m \in min_minute..max_minute
                /\ \A j \in 1..(i - 1) : j \notin MinuteGroup(arrays, m)
             THEN rest \o <<LastOfMinute(arrays, MinuteGroup(arrays, m))>>
             ELSE rest

FilterMarket_unsorted(arrays, min_minute, max_minute) ==
    KeepReversed(arrays, 1, min_minute, max_minute)

\* Lines 564-592: the filtered arrays of one market.
FilterMarket(arrays, min_minute, max_minute) ==
    KeepFrom(arrays, min_minute, max_minute)

\* filter_odds_by_minutes(odds_data, min_minute=2, max_minute=6), lines 545-594.
filter_odds_by_minutes(data) ==
    [type \in ODDS_TYPES \cap DOMAIN data |->
        FilterMarket(data[type], MIN_MINUTE, MAX_MINUTE)]

(***************************************************************************)
(* step2.py: merge_and_summarize                                           *)
(***************************************************************************)
\* Line 349.
PREFERRED_COMPANIES ==
    << <<"2">>, <<"3">>, <<"4">>, <<"5">>, <<"6">>, <<"9">>, <<"1", "0">>, <<"1", "1">>,
       <<"1", "3">>, <<"1", "4">>, <<"1", "5">>, <<"1", "6">>, <<"1", "7">>, <<"2", "1">>,
       <<"2", "2">> >>

\* Lines 309-329.
BETTING_COMPANIES ==
    << Item(<<"2">>, Text("BET365")), Item(<<"3">>, Text("Crown")),
       Item(<<"4">>, Text("10BET")), Item(<<"5">>, Text("Ladbrokes")),
       Item(<<"6">>, Text("Mansion88")), Item(<<"7">>, Text("Macauslot")),
       Item(<<"8">>, Text("SNAI")), Item(<<"9">>, Text("William Hill")),
       Item(<<"1", "0">>, Text("Easybets")), Item(<<"1", "1">>, Text("Vcbet")),
       Item(<<"1", "2">>, Text("EuroBet")), Item(<<"1", "3">>, Text("Interwetten")),
       Item(<<"1", "4">>, Text("12bet")), Item(<<"1", "5">>, Text("Sbobet")),
       Item(<<"1", "6">>, Text("Wewbet")), Item(<<"1", "7">>, Text("18Bet")),
       Item(<<"1", "8">>, Text("Fun88")), Item(<<"2", "1">>, Text("188bet")),
       Item(<<"2", "2">>, Text("Pinnacle")) >>

\* str(x) for an id: a string, an integer or None.
PyStr(x) ==
    CASE x.t = "str" -> x.s
      [] x.t = "int" -> IF x.n >= 0 THEN NatToStr(x.n) ELSE <<"-">> \o NatToStr(0 - x.n)
      [] x.t = "null" -> <<"N", "o", "n", "e">>

\* Lines 607-612: details = results[0] of the match's wrapper, or None.
FirstDetail(details_by_id, match_id) ==
    IF DictHas(details_by_id, match_id) /\ DictGet(details_by_id, match_id).results # <<>>
    THEN [found |-> TRUE, rec |-> DictGet(details_by_id, match_id).results[1]]
    ELSE [found |-> FALSE,
          rec |-> [home_team_id |-> Absent, away_team_id |-> Absent,
                   competition_id |-> Absent]]

\* Lines 623-634: match[side]["id"] after the details were merged in.
MergedId(details, field) ==
    IF details.found /\ Truthy(OrDefault(details.rec[field], Str(<<>>)))
    THEN details.rec[field]
    ELSE Absent

\* Lines 656, 657, 682: str(match[side].get("id", "") or details.get(field, "")).
\* With details = None the right operand raises AttributeError.
LookupRaises(details, field) ==
    /\ ~Truthy(MergedId(details, field))
    /\ ~details.found

LookupKey(details, field) ==
    IF Truthy(MergedId(details, field)) THEN PyStr(MergedId(details, field))
    ELSE PyStr(OrDefault(details.rec[field], Str(<<>>)))

\* The lookup with .get("name") in place of .get("name", "Unknown").
LookupName_no_default(info, key) ==
    IF key # <<>> /\ DictHas(info, key) /\ DictGet(info, key).results # <<>>
    THEN OrDefault(DictGet(info, key).results[1].name, Null)
    ELSE Absent

\* Lines 660-668 and 684-690: match[side]["name"] after the lookup; Absent
\* when the lookup left the key unset.
LookupName(info, key) ==
    IF key # <<>> /\ DictHas(info, key) /\ DictGet(info, key).results # <<>>
    THEN OrDefault(DictGet(info, key).results[1].name, Text("Unknown"))
    ELSE Absent

\* Lines 683-704: match["league"]["country_name"]; Absent when unset.
LookupCountry(competition_info, countries, key) ==
    IF key # <<>> /\ DictHas(competition_info, key)
          /\ DictGet(competition_info, key).results # <<>>
    THEN LET country_id ==
                 OrDefault(DictGet(competition_info, key).results[1].country_id, Str(<<>>))
         IN  IF Truthy(country_id) /\ countries # <<>> /\ DictHas(countries, country_id)
             THEN OrDefault(DictGet(countries, country_id).name, Text("Unknown"))
             ELSE Text("Unknown")
    ELSE Absent

\* extract_odds, lines 375-389, on match["odds"] (lines 646-653): company id
\* -> the four markets under their descriptive names.
extract_odds(odds_by_id, match_id) ==
    IF DictHas(odds_by_id, match_id)
    THEN LET results == DictGet(odds_by_id, match_id).results
         IN  [i \in 1..Len(results) |->
                 Item(results[i].key,
                      OddsMapping(results[i].value.eu, results[i].value.asia,
                                  results[i].value.bs, results[i].value.cr))]
    ELSE <<>>

\* The test of lines 718-724 with corners counted as data.
has_data_with_corners(raw_odds, company_id) ==
    /\ DictHas(raw_odds, company_id)
    /\ \E type \in ODDS_TYPES : DictGet(raw_odds, company_id)[type] # <<>>

\* Lines 718-724: the company is present and one of its money line, spread
\* and over/under arrays is not empty.
has_data(raw_odds, company_id) ==
    /\ DictHas(raw_odds, company_id)
    /\ \E type \in {"money_line", "spread", "over_under"} :
          DictGet(raw_odds, company_id)[type] # <<>>

\* Lines 717-729: the position in PREFERRED_COMPANIES of the company the
\* loop stops at, from position i on; 0 when it ends without one.
RECURSIVE SelectCompany(_, _)
SelectCompany(raw_odds, i) ==
    IF i > Len(PREFERRED_COMPANIES) THEN 0
    ELSE IF has_data(raw_odds, PREFERRED_COMPANIES[i]) THEN i
    ELSE SelectCompany(raw_odds, i + 1)

\* Lines 732-754: the odds fields of the summary.
OddsFields(raw_odds) ==
    LET k == SelectCompany(raw_odds, 1)
    IN  IF k # 0
        THEN LET selected_company_id == PREFERRED_COMPANIES[k]
                 selected_odds ==
                     filter_odds_by_minutes(DictGet(raw_odds, selected_company_id))
             IN  [money_line |-> selected_odds["money_line"],
                  money_line_american |->
                      convert_odds_array(selected_odds["money_line"], "money_line"),
                  spread |-> selected_odds["spread"],
                  spread_american |-> convert_odds_array(selected_odds["spread"], "spread"),
                  over_under |-> selected_odds["over_under"],
                  over_under_american |->
                      convert_odds_array(selected_odds["over_under"], "over_under"),
                  corners |-> selected_odds["corners"],
                  corners_american |->
                      convert_odds_array(selected_odds["corners"], "corners"),
                  odds_company_id |-> Str(selected_company_id),
                  odds_company_name |->
                      IF DictHas(BETTING_COMPANIES, selected_company_id)
                      THEN DictGet(BETTING_COMPANIES, selected_company_id)
                      ELSE Str(<<"Company ">> \o selected_company_id),
                  odds |-> <<Item(selected_company_id, selected_odds)>>]
        ELSE [money_line |-> <<>>, money_line_american |-> <<>>,
              spread |-> <<>>, spread_american |-> <<>>,
              over_under |-> <<>>, over_under_american |-> <<>>,
              corners |-> <<>>, corners_american |-> <<>>,
              odds_company_id |-> Null, odds_company_name |-> Null,
              odds |-> <<>>]

\* Lines 601-759, one pass of the loop: whether it raises, and the summary
\* it appends (extract_summary_fields, lines 355-373, reads the names).
MergeOne(match, details_by_id, odds_by_id, team_info, competition_info, countries) ==
    LET match_id == PyStr(OrDefault(match.id, Str(<<>>)))
        details == FirstDetail(details_by_id, match_id)
        home_key == LookupKey(details, "home_team_id")
        away_key == LookupKey(details, "away_team_id")
        comp_key == LookupKey(details, "competition_id")
    IN  [raised |-> \E field \in {"home_team_id", "away_team_id", "competition_id"} :
                        LookupRaises(details, field),
         summary |->
            [match_id |-> match.id,
             home |-> OrDefault(LookupName(team_info, home_key), Text("Unknown")),
             away |-> OrDefault(LookupName(team_info, away_key), Text("Unknown")),
             home_id |-> OrDefault(MergedId(details, "home_team_id"), Str(<<>>)),
             away_id |-> OrDefault(MergedId(details, "away_team_id"), Str(<<>>)),
             competition |->
                 OrDefault(LookupName(competition_info, comp_key), Text("Unknown")),
             competition_id |-> OrDefault(MergedId(details, "competition_id"), Str(<<>>)),
             country |->
                 OrDefault(LookupCountry(competition_info, countries, comp_key),
                           Text("Unknown"))]
            @@ OddsFields(extract_odds(odds_by_id, match_id))]

\* Lines 602-604: a match without an id is skipped.
HasId(match) == PyStr(OrDefault(match.id, Str(<<>>))) # <<>>

\* merge_and_summarize, lines 596-761: the summaries of the matches that
\* have an id, in order; an exception in one pass ends the call without a
\* result.
merge_and_summarize(live, details_by_id, odds_by_id, team_info, competition_info, countries) ==
    LET with_id == SelectSeq(live, HasId)
        passes == [i \in 1..Len(with_id) |->
                      MergeOne(with_id[i], details_by_id, odds_by_id, team_info,
                               competition_info, countries)]
    IN  IF \E i \in 1..Len(with_id) : passes[i].raised
        THEN [raised |-> TRUE, summaries |-> <<>>]
        ELSE [raised |-> FALSE,
              summaries |-> [i \in 1..Len(with_id) |-> passes[i].summary]]

(***************************************************************************)
(* step2.py main and step27.py extract_merge_summarize: the countries      *)
(* document and the batch                                                  *)
(***************************************************************************)
\* The countries document of step1.json: "wrapper" is {"results": [records]},
\* "list" is [records], "mapping" is {id: record}.
CountryShapes == {"wrapper", "list", "mapping"}

\* step2.main, line 793: countries_data.items() exists on a dict only.
ItemsRaises(doc) == doc.shape = "list"

\* step2.main, lines 792-797: the records of the values that are lists,
\* indexed by their id; the values of an id-keyed mapping are dicts and add
\* nothing.
country_lookup(doc) ==
    IF doc.shape = "wrapper"
    THEN [i \in 1..Len(doc.records) |->
             Item(doc.records[i].id, [name |-> doc.records[i].name])]
    ELSE <<>>

\* step2.main, lines 779-853: an exception of the lookup loop or of
\* merge_and_summarize reaches "except Exception" and is raised again.
Step2Main(live, details_by_id, odds_by_id, team_info, competition_info, doc) ==
    IF ItemsRaises(doc) THEN [raised |-> TRUE, summaries |-> <<>>]
    ELSE merge_and_summarize(live, details_by_id, odds_by_id, team_info,
                             competition_info, country_lookup(doc))

\* step27.merge_and_summarize, line 365: cw.get exists on a dict only.
CwGetRaises(doc) == doc.shape = "list"

\* step27.merge_and_summarize, lines 364-366: cl is the "results" list of
\* the document (an id-keyed mapping has none), countries maps id to name.
Step27Countries(doc) ==
    IF doc.shape = "wrapper"
    THEN [i \in 1..Len(doc.records) |-> Item(doc.records[i].id, doc.records[i].name)]
    ELSE <<>>

\* first_result, lines 339-344, on competition_info: the first record of the
\* wrapper under str(key), else {}.
FirstCompetition(competition_info, key) ==
    IF Truthy(key) /\ DictHas(competition_info, PyStr(key))
          /\ DictGet(competition_info, PyStr(key)).results # <<>>
    THEN DictGet(competition_info, PyStr(key)).results[1]
    ELSE [name |-> Absent, country_id |-> Absent]

\* step27.merge_and_summarize, lines 347-420, for one match: whether it
\* raises and the competition part of its summary (lines 78-83);
\* .get on a missing key gives None.
Step27MergeOne(match, details_by_id, competition_info, doc) ==
    LET mid == OrDefault(match.id, Null)
        detail == IF Truthy(mid) THEN FirstDetail(details_by_id, PyStr(mid)).rec
                  ELSE FirstDetail(<<>>, <<>>).rec
        comp == FirstCompetition(competition_info,
                                 OrDefault(detail.competition_id, Null))
        countries == Step27Countries(doc)
        country_id == OrDefault(comp.country_id, Null)
    IN  [raised |-> CwGetRaises(doc),
         summary |->
            [match_id |-> mid,
             competition |-> OrDefault(comp.name, Null),
             country |-> IF DictHas(countries, country_id)
                         THEN OrDefault(DictGet(countries, country_id), Null)
                         ELSE Null]]

\* extract_merge_summarize, lines 467-474: each match in its own try block;
\* a match that raises adds one entry to processing_errors.
RECURSIVE ProcessSummaries(_, _, _, _, _)
ProcessSummaries(matches, i, details_by_id, competition_info, doc) ==
    IF i > Len(matches) THEN [summaries |-> <<>>, errors |-> 0]
    ELSE LET one == Step27MergeOne(matches[i], details_by_id, competition_info, doc)
             rest == ProcessSummaries(matches, i + 1, details_by_id, competition_info, doc)
         IN  IF one.raised
             THEN [summaries |-> rest.summaries, errors |-> rest.errors + 1]
             ELSE [summaries |-> <<one.summary>> \o rest.summaries,
                   errors |-> rest.errors]

(***************************************************************************)
(* step27.py: the history file                                             *)
(***************************************************************************)
MAX_HISTORY_ENTRIES == 5

\* A batch is identified by its timestamp (the call's clock value).
Batch(ts) == [timestamp |-> ts]

\* The document found on disk, wrapped as one history entry (line 265,
\* taken when the loaded document has no non-empty "history").
LegacyEntry == [timestamp |-> 0]

\* data["history"][-MAX_HISTORY_ENTRIES:]
LastEntries(h, n) ==
    IF Len(h) <= n THEN h ELSE SubSeq(h, Len(h) - n + 1, Len(h))

\* Lines 261-265: the history the call starts from.
LoadHistory ==
    IF file_kind = "missing" THEN <<>>
    ELSE IF history # <<>> THEN history
    ELSE <<LegacyEntry>>

\* Lines 267-270: rotation before the append.
RotateHistory(h) ==
    IF Len(h) >= MAX_HISTORY_ENTRIES THEN LastEntries(h, MAX_HISTORY_ENTRIES)
    ELSE h

\* Lines 267-272: rotate, then append the current batch.
AppendBatch(h, batch) == Append(RotateHistory(h), batch)

\* save_match_summaries(summaries, output_file), lines 223-336.
\* write_ok: whether open(path, "w") + json.dump succeed.
save_match_summaries(write_ok) ==
    /\ pc = "history"
    /\ clock < MaxSaves
    /\ clock' = clock + 1
    /\ IF file_kind = "corrupt"
       THEN \* json.load raises inside the try: the except returns False
            /\ save_result' = "False"
            /\ UNCHANGED <<file_kind, history, appended>>
       ELSE IF write_ok
       THEN /\ history' = AppendBatch(LoadHistory, Batch(clock'))
            /\ file_kind' = "doc"
            /\ appended' = Append(appended, clock')
            /\ save_result' = "True"
       ELSE /\ save_result' = "False"
            /\ UNCHANGED <<file_kind, history, appended>>
    /\ UNCHANGED <<pc, conv_vars, filter_vars, merge_vars, pipeline_vars>>

SaveOk == save_match_summaries(TRUE)

SaveWriteFails == save_match_summaries(FALSE)

\* The environment damages the file (a partial write, a disk fault).
CorruptHistoryFile ==
    /\ pc = "history"
    /\ file_kind = "doc"
    /\ file_kind' = "corrupt"
    /\ UNCHANGED <<pc, history, clock, appended, save_result,
                   conv_vars, filter_vars, merge_vars, pipeline_vars>>

(***************************************************************************)
(* step7.py and step7_rich.py: the status filter                           *)
(***************************************************************************)
\* step7.py line 19; the same values in step7_rich.py line 82.
STATUS_FILTER == {2, 3, 4, 5, 6, 7}

\* The variant that also lets status 1 (not started) through.
InStatusFilter_from_not_started(status_id) ==
    status_id.t = "int" /\ status_id.n \in STATUS_FILTER \cup {1}

\* mdata.get("status_id") in STATUS_FILTER: None (a missing key) and a
\* string are not members, an integer is when the set holds it.
InStatusFilter(status_id) ==
    status_id.t = "int" /\ status_id.n \in STATUS_FILTER

\* step7.py line 368: {str(s["match_id"]): s for s in summaries_list}.  A
\* later summary replaces an earlier one of the same key, in its place.
RECURSIVE RawMatchesById(_)
RawMatchesById(list) ==
    IF list = <<>> THEN <<>>
    ELSE LET front == RawMatchesById(SubSeq(list, 1, Len(list) - 1))
             last == list[Len(list)]
             key == PyStr(last.match_id)
         IN  IF DictHas(front, key)
             THEN [i \in 1..Len(front) |->
                      IF front[i].key = key THEN Item(key, last) ELSE front[i]]
             ELSE Append(front, Item(key, last))

KeptByStatus(item) == InStatusFilter(item.value.status_id)

\* run_step7(summaries_list), step7.py lines 366-377: the dict filtered.
run_step7(list) == SelectSeq(RawMatchesById(list), KeptByStatus)

IsInplay(m) == InStatusFilter(m.status_id)

\* filter_inplay_matches, step7_rich.py lines 80-83.
filter_inplay_matches(matches) == SelectSeq(matches, IsInplay)

(***************************************************************************)
(* step1.py: the PID-file lock.  Every system call of create_pid_file and  *)
(* remove_pid_file is one step of the process that makes it.               *)
(***************************************************************************)
\* The step1 processes started against one working directory; a process's
\* number is its pid.
Procs == {1, 2}

EndedStates == {"exited", "crashed", "done", "killed"}

\* os.kill(pid, 0) succeeds: pid is a process that has not ended.
ProcessExists(pid) == pid \in Procs /\ proc_pc[pid] \notin EndedStates

NoFile == [exists |-> FALSE, content |-> 0]

\* os.remove(PID_FILE): the name goes, and what was open under it is no
\* longer step1.pid.
Unlink ==
    /\ pid_file' = NoFile
    /\ handle_valid' = [q \in Procs |-> FALSE]

Goto(p, label) == proc_pc' = [proc_pc EXCEPT ![p] = label]

\* Line 719: os.path.exists(PID_FILE).
CheckPidFile(p) ==
    /\ proc_pc[p] = "start"
    /\ Goto(p, IF pid_file.exists THEN "read" ELSE "open_write")
    /\ UNCHANGED <<pid_file, proc_mode, existing_pid, handle_valid, handler_set,
                   shutdown_flag, lock_created, outside_pid>>

\* Lines 721-722: open, read and int().  A file that is gone raises
\* FileNotFoundError, which the handler of line 733 answers with an
\* os.remove (line 735) that raises again: create_pid_file ends by that
\* exception.  Content that is not a number raises ValueError.
ReadPidFile(p) ==
    /\ proc_pc[p] = "read"
    /\ IF ~pid_file.exists THEN Goto(p, "crashed") /\ UNCHANGED existing_pid
       ELSE IF pid_file.content = 0 THEN Goto(p, "remove_invalid") /\ UNCHANGED existing_pid
       ELSE /\ existing_pid' = [existing_pid EXCEPT ![p] = pid_file.content]
            /\ Goto(p, "probe")
    /\ UNCHANGED <<pid_file, proc_mode, handle_valid, handler_set, shutdown_flag,
                   lock_created, outside_pid>>

\* Lines 726-729: os.kill(existing_pid, 0), then sys.exit(1) or OSError.
ProbePid(p) ==
    /\ proc_pc[p] = "probe"
    /\ Goto(p, IF ProcessExists(existing_pid[p]) THEN "exited" ELSE "remove_stale")
    /\ UNCHANGED <<pid_file, proc_mode, existing_pid, handle_valid, handler_set,
                   shutdown_flag, lock_created, outside_pid>>

\* Line 731 (stale file) and line 735 (invalid file): os.remove(PID_FILE).
\* On a file that is gone it raises FileNotFoundError; at line 731 the
\* handler of line 733 catches it and its own os.remove raises it again.
RemoveOldPidFile(p) ==
    /\ proc_pc[p] \in {"remove_stale", "remove_invalid"}
    /\ IF pid_file.exists
       THEN Unlink /\ Goto(p, "open_write")
       ELSE Goto(p, "crashed") /\ UNCHANGED <<pid_file, handle_valid>>
    /\ UNCHANGED <<proc_mode, existing_pid, handler_set, shutdown_flag, lock_created,
                   outside_pid>>

\* Line 739: open(PID_FILE, 'w') creates the file or truncates it.
OpenPidFileForWrite(p) ==
    /\ proc_pc[p] = "open_write"
    /\ pid_file' = [exists |-> TRUE, content |-> 0]
    /\ handle_valid' = [handle_valid EXCEPT ![p] = TRUE]
    /\ lock_created' = [lock_created EXCEPT ![p] = TRUE]
    /\ Goto(p, "write")
    /\ UNCHANGED <<proc_mode, existing_pid, handler_set, shutdown_flag, outside_pid>>

\* Line 740: f.write(str(os.getpid())) and the close of the with block.
WritePid(p) ==
    /\ proc_pc[p] = "write"
    /\ pid_file' = IF handle_valid[p] THEN [exists |-> TRUE, content |-> p] ELSE pid_file
    /\ Goto(p, "locked")
    /\ UNCHANGED <<proc_mode, existing_pid, handle_valid, handler_set, shutdown_flag,
                   lock_created, outside_pid>>

\* Lines 1824-1829 after create_pid_file returned: continuous_loop first
\* registers signal_handler (lines 1431-1432), run_single_cycle registers
\* nothing; then the fetch cycle runs.
EnterCycle(p) ==
    /\ proc_pc[p] = "locked"
    /\ handler_set' = [handler_set EXCEPT ![p] = (proc_mode[p] = "continuous")]
    /\ Goto(p, "running")
    /\ UNCHANGED <<pid_file, proc_mode, existing_pid, handle_valid, shutdown_flag,
                   lock_created, outside_pid>>

\* run_single_cycle returns (or raises); continuous_loop returns once
\* shutdown_flag is set (line 1437).  The finally of pid_lock follows.
LeaveCycle(p) ==
    /\ proc_pc[p] = "running"
    /\ proc_mode[p] = "continuous" => shutdown_flag[p]
    /\ Goto(p, "cleanup")
    /\ UNCHANGED <<pid_file, proc_mode, existing_pid, handle_valid, handler_set,
                   shutdown_flag, lock_created, outside_pid>>

\* remove_pid_file, line 745: os.path.exists(PID_FILE).
CleanupCheck(p) ==
    /\ proc_pc[p] = "cleanup"
    /\ Goto(p, IF pid_file.exists THEN "cleanup_remove" ELSE "done")
    /\ UNCHANGED <<pid_file, proc_mode, existing_pid, handle_valid, handler_set,
                   shutdown_flag, lock_created, outside_pid>>

\* remove_pid_file, line 746: os.remove(PID_FILE); FileNotFoundError leaves
\* through the handler of line 1833 and sys.exit(1).
CleanupRemove(p) ==
    /\ proc_pc[p] = "cleanup_remove"
    /\ IF pid_file.exists
       THEN Unlink /\ Goto(p, "done")
       ELSE Goto(p, "crashed") /\ UNCHANGED <<pid_file, handle_valid>>
    /\ UNCHANGED <<proc_mode, existing_pid, handler_set, shutdown_flag, lock_created,
                   outside_pid>>

\* SIGTERM reaches a process where signal_handler is registered: lines
\* 710-715 set shutdown_flag.
SigtermHandled(p) ==
    /\ proc_pc[p] \notin EndedStates
    /\ handler_set[p]
    /\ ~shutdown_flag[p]
    /\ shutdown_flag' = [shutdown_flag EXCEPT ![p] = TRUE]
    /\ UNCHANGED <<pid_file, proc_pc, proc_mode, existing_pid, handle_valid, handler_set,
                   lock_created, outside_pid>>

\* SIGTERM reaches a process where no handler is registered: the default
\* action ends the process at once, no finally block runs.
SigtermDefault(p) ==
    /\ proc_pc[p] \notin EndedStates
    /\ ~handler_set[p]
    /\ Goto(p, "killed")
    /\ UNCHANGED <<pid_file, proc_mode, existing_pid, handle_valid, handler_set,
                   shutdown_flag, lock_created, outside_pid>>

(***************************************************************************)
(* step1.py: credentials and fetch_json / fetch_json_async                 *)
(***************************************************************************)
\* range(3), lines 800 and 601.
MAX_ATTEMPTS == 3

\* What a request can meet: a connection error, a timeout, an HTTP error
\* status (raise_for_status), a body that is not JSON, a JSON body whose
\* "err" is not a string, a body with a not-authorized "err", a body with
\* another "err", a body without "err".
Outcomes ==
    {"network_error", "timeout", "http_error", "not_json", "err_not_text",
     "not_authorized", "other_err", "data"}

\* The outcomes that raise inside the try block: requests.get, lines 802-804,
\* and error_msg.lower() at line 809 on an "err" that is not a string.
RaisesInTry(outcome) ==
    outcome \in {"network_error", "timeout", "http_error", "not_json", "err_not_text"}

\* Variant: a handler for requests.RequestException alone.
CaughtRequestErrorsOnly(outcome) ==
    outcome \in {"network_error", "timeout", "http_error"}

\* Line 819: except Exception catches every exception of the try block.
Caught(outcome) == RaisesInTry(outcome)

\* Lines 807-817: the outcomes on which the attempt returns at once.
ReturnsAtOnce(outcome) == ~RaisesInTry(outcome)

\* Variant: every "err" response is handed back as it came.
Returned_error_as_is(outcome) ==
    CASE outcome = "not_authorized" -> "error_response"
      [] outcome = "other_err" -> "error_response"
      [] outcome = "data" -> "data"

\* Lines 807-817: what the attempt returns.
Returned(outcome) ==
    CASE outcome = "not_authorized" -> "mock"
      [] outcome = "other_err" -> "error_response"
      [] outcome = "data" -> "data"

\* Line 824: time.sleep(2 ** attempt).
BackoffSeconds(n) == 2 ^ n

\* Lines 130-131: os.getenv with a fallback value; nothing tests the result.
LoadCredentials ==
    /\ pc = "startup"
    /\ credentials' = IF env_credentials THEN "env" ELSE "fallback"
    /\ pc' = "request"
    /\ UNCHANGED <<env_credentials, attempt, requests_made, sleeps, responses, fetch_result,
                   outside_fetch>>

\* One pass of the loop of lines 800-824 (601-625 in fetch_json_async), up
\* to its return or to the sleep.
Request(outcome) ==
    /\ pc = "request"
    /\ attempt < MAX_ATTEMPTS
    /\ requests_made' = requests_made + 1
    /\ responses' = Append(responses, outcome)
    /\ IF ReturnsAtOnce(outcome)
       THEN fetch_result' = Returned(outcome) /\ pc' = "returned"
       ELSE IF ~Caught(outcome)
       THEN fetch_result' = "raised" /\ pc' = "returned"
       ELSE IF attempt = MAX_ATTEMPTS - 1
       THEN fetch_result' = "mock" /\ pc' = "returned"
       ELSE UNCHANGED fetch_result /\ pc' = "backoff"
    /\ UNCHANGED <<env_credentials, credentials, attempt, sleeps, outside_fetch>>

\* Line 824 and the next value of the loop variable.
Backoff ==
    /\ pc = "backoff"
    /\ sleeps' = Append(sleeps, BackoffSeconds(attempt))
    /\ attempt' = attempt + 1
    /\ pc' = "request"
    /\ UNCHANGED <<env_credentials, credentials, requests_made, responses, fetch_result,
                   outside_fetch>>

(***************************************************************************)
(* step7.py and step27.py: sort_matches_by_competition_and_time            *)
(***************************************************************************)
\* The characters of the names in use, in code point order.
CodePoints ==
    << " ", "0", "1", "2", "3", "4", "5", "6", "7", "8", "9", "A", "B", "C", "N", "U",
       "a", "b", "e", "i", "k", "m", "n", "o", "p", "t", "w" >>

CodePoint(c) == CHOOSE i \in 1..Len(CodePoints) : CodePoints[i] = c

\* a < b for two Python strings.
RECURSIVE StrLess(_, _)
StrLess(a, b) ==
    IF b = <<>> THEN FALSE
    ELSE IF a = <<>> THEN TRUE
    ELSE IF Head(a) # Head(b) THEN CodePoint(Head(a)) < CodePoint(Head(b))
    ELSE StrLess(Tail(a), Tail(b))

UnknownCompetition ==
    << "U", "n", "k", "n", "o", "w", "n", " ", "C", "o", "m", "p", "e", "t", "i", "t",
       "i", "o", "n" >>

UnknownCountry == << "U", "n", "k", "n", "o", "w", "n" >>

NoneText == << "N", "o", "n", "e" >>

\* A match of the argument.  Its "competition" is a name (or None) when
\* comp_is_dict is FALSE and {"name": competition, "country": comp_country}
\* when it is TRUE; country is its top-level "country"; inferred is what
\* infer_country_from_teams returns for its team and competition names.
MatchData(match_id, status_id, competition, comp_is_dict, comp_country, country, inferred) ==
    [match_id |-> match_id, status_id |-> status_id, competition |-> competition,
     comp_is_dict |-> comp_is_dict, comp_country |-> comp_country, country |-> country,
     inferred |-> inferred]

\* Lines 154-158 (step27: 542-547): the name the match is grouped under.
CompName(match_data) ==
    IF match_data.comp_is_dict
    THEN OrDefault(match_data.competition, Str(UnknownCompetition))
    ELSE IF match_data.competition \in {Absent, Null} THEN Str(UnknownCompetition)
    ELSE match_data.competition

\* step7, lines 160-162: the country is read from the competition dict only.
Step7Country(match_data) ==
    LET country == IF match_data.comp_is_dict
                   THEN OrDefault(match_data.comp_country, Str(UnknownCountry))
                   ELSE Str(UnknownCountry)
    IN  IF country \in {Null, Str(NoneText), Str(UnknownCountry)}
        THEN match_data.inferred
        ELSE country

\* step27, lines 549-551: the country is read from the top-level "country".
Step27Country(match_data) ==
    LET got == OrDefault(match_data.country, Str(UnknownCountry))
        country == IF Truthy(got) THEN got ELSE Str(UnknownCountry)
    IN  IF country \in {Null, Str(NoneText)} THEN match_data.inferred
        ELSE country

\* Lines 164-166: the names of the groups in the order they are created.
RECURSIVE GroupNames(_, _)
GroupNames(items, seen) ==
    IF items = <<>> THEN <<>>
    ELSE LET comp == CompName(Head(items).value)
         IN  IF comp \in seen THEN GroupNames(Tail(items), seen)
             ELSE <<comp>> \o GroupNames(Tail(items), seen \cup {comp})

\* Line 166: the items appended to the group of comp, in order.
RECURSIVE GroupItems(_, _)
GroupItems(items, comp) ==
    IF items = <<>> THEN <<>>
    ELSE (IF CompName(Head(items).value) = comp THEN <<Head(items)>> ELSE <<>>)
         \o GroupItems(Tail(items), comp)

\* Line 168: status_order, with 99 for any other status.
StatusRank(status_id) ==
    IF status_id.t = "int" /\ status_id.n \in 2..7 THEN status_id.n - 1 ELSE 99

\* Lines 170-175: the key of an item, and the order of two keys.
ItemLess(a, b) ==
    LET ra == StatusRank(a.value.status_id)
        rb == StatusRank(b.value.status_id)
        ia == PyStr(OrDefault(a.value.match_id, Str(<<>>)))
        ib == PyStr(OrDefault(b.value.match_id, Str(<<>>)))
    IN  ra < rb \/ (ra = rb /\ StrLess(ia, ib))

\* list.sort is stable: an item goes behind the items that are not after it.
RECURSIVE InsertItem(_, _)
InsertItem(sorted, x) ==
    IF sorted = <<>> THEN <<x>>
    ELSE IF ItemLess(x, Head(sorted)) THEN <<x>> \o sorted
    ELSE <<Head(sorted)>> \o InsertItem(Tail(sorted), x)

RECURSIVE SortItems(_)
SortItems(items) ==
    IF items = <<>> THEN <<>>
    ELSE InsertItem(SortItems(SubSeq(items, 1, Len(items) - 1)), items[Len(items)])

\* Lines 177-180: the key (country or "Unknown", name) of a group.
GroupLess(a, b) ==
    LET ca == IF Truthy(a.country) THEN a.country.s ELSE UnknownCountry
        cb == IF Truthy(b.country) THEN b.country.s ELSE UnknownCountry
    IN  StrLess(ca, cb) \/ (ca = cb /\ StrLess(a.comp.s, b.comp.s))

RECURSIVE InsertGroup(_, _)
InsertGroup(sorted, x) ==
    IF sorted = <<>> THEN <<x>>
    ELSE IF GroupLess(x, Head(sorted)) THEN <<x>> \o sorted
    ELSE <<Head(sorted)>> \o InsertGroup(Tail(sorted), x)

RECURSIVE SortGroups(_)
SortGroups(groups) ==
    IF groups = <<>> THEN <<>>
    ELSE InsertGroup(SortGroups(SubSeq(groups, 1, Len(groups) - 1)), groups[Len(groups)])

\* The first item of the argument that is grouped under comp: the one
\* that creates the group and gives it its country (line 165).
FirstOfGroup(items, comp) == GroupItems(items, comp)[1].value

\* step7.sort_matches_by_competition_and_time, lines 151-181: the result
\* dict as the list of its (name, matches) pairs.
Step7SortMatches(items) ==
    LET names == GroupNames(items, {})
        groups == [g \in 1..Len(names) |->
                      [comp |-> names[g],
                       country |-> Step7Country(FirstOfGroup(items, names[g])),
                       matches |-> SortItems(GroupItems(items, names[g]))]]
    IN  SortGroups(groups)

\* step27.sort_matches_by_competition_and_time, lines 539-565.
Step27SortMatches(items) ==
    LET names == GroupNames(items, {})
        groups == [g \in 1..Len(names) |->
                      [comp |-> names[g],
                       country |-> Step27Country(FirstOfGroup(items, names[g])),
                       matches |-> SortItems(GroupItems(items, names[g]))]]
    IN  SortGroups(groups)

SortWithStep7 ==
    /\ pc = "sort"
    /\ step7_groups' = Step7SortMatches(matches_dict)
    /\ pc' = "step7_sorted"
    /\ UNCHANGED <<matches_dict, step27_groups, outside_sort>>

SortWithStep27 ==
    /\ pc = "step7_sorted"
    /\ step27_groups' = Step27SortMatches(matches_dict)
    /\ pc' = "step27_sorted"
    /\ UNCHANGED <<matches_dict, step7_groups, outside_sort>>

(***************************************************************************)
(* step1.py: continuous_loop                                               *)
(***************************************************************************)
\* The sub-steps of a cycle, in order; "rotate" is the daily rotation file.
SubSteps == {"fetch", "step2", "step7", "rotate"}

\* Variant: only the try blocks around Step 2 and Step 7 exist.
CaughtInCycle_inner_only(step) == step \in {"step2", "step7"}

\* Lines 1440-1542: every sub-step runs inside the try block of the cycle
\* (Step 2 and Step 7 inside their own as well, lines 1499 and 1513).
CaughtInCycle(step) == step \in SubSteps

\* The keyword run_step7 declares for the summaries (src/step7.py line 344).
RunStep7Parameter == "summaries_list"

\* Variant: the call names the parameter run_step7 declares.
CallKeyword_declared == "summaries_list"

\* The keyword the call of line 1514 passes them under.
CallKeyword == "matches_list"

\* step7.run_step7 as called at line 1514 with the cycle's summaries, or
\* None when they are empty: a keyword the function does not declare raises
\* TypeError; with None the last batch of step2.json is displayed (src/step7.py
\* lines 352-366), else the summaries passed.
CallRunStep7(arg, batches) ==
    IF CallKeyword # RunStep7Parameter THEN [raised |-> TRUE, displayed |-> 0]
    ELSE IF arg # 0 THEN [raised |-> FALSE, displayed |-> arg]
    ELSE IF batches = <<>> THEN [raised |-> FALSE, displayed |-> 0]
    ELSE [raised |-> FALSE, displayed |-> batches[Len(batches)]]

\* Variant: the inter-cycle sleep runs its full length.
SleepGoesOn_full_length(elapsed, time, flag) == elapsed < time

\* Line 1556: the condition of the sleep loop.
SleepGoesOn(elapsed, time, flag) == elapsed < time /\ ~flag

\* signal_handler, lines 710-715, registered at lines 1431-1432.
Signal ==
    /\ pc \in {"loop_test", "fetch", "step2", "step7", "rotate", "sleep"}
    /\ ~shutdown_requested
    /\ shutdown_requested' = TRUE
    /\ UNCHANGED <<pc, cycle, completed, caught, cycle_summaries, step2_json, displayed,
                   sleep_time, sleep_elapsed, outside_loop>>

\* Line 1437: while not shutdown_flag; line 1560 when the loop is left.
LoopTest ==
    /\ pc = "loop_test"
    /\ IF shutdown_requested
       THEN /\ pc' = "loop_returned"
            /\ UNCHANGED <<cycle, cycle_summaries, displayed>>
       ELSE /\ cycle < MaxCycles
            /\ cycle' = cycle + 1
            /\ cycle_summaries' = 0
            /\ displayed' = 0
            /\ pc' = "fetch"
    /\ UNCHANGED <<shutdown_requested, completed, caught, step2_json, sleep_time,
                   sleep_elapsed, outside_loop>>

\* The end of the try block or of its handler, lines 1539-1549: the
\* remainder of the 60 seconds is computed.
EndCycle(seconds) ==
    /\ completed' = completed + 1
    /\ sleep_time' = seconds
    /\ sleep_elapsed' = 0
    /\ pc' = "sleep"

\* Lines 1441-1495: Step 1 (fetch, enrich, summaries, save step1.json)
\* succeeds or throws.
FetchStep(throws, seconds) ==
    /\ pc = "fetch"
    /\ IF ~throws
       THEN /\ pc' = "step2"
            /\ UNCHANGED <<completed, caught, sleep_time, sleep_elapsed>>
       ELSE IF CaughtInCycle("fetch")
       THEN caught' = caught + 1 /\ EndCycle(seconds)
       ELSE /\ pc' = "loop_crashed"
            /\ UNCHANGED <<completed, caught, sleep_time, sleep_elapsed>>
    /\ UNCHANGED <<shutdown_requested, cycle, cycle_summaries, step2_json, displayed,
                   outside_loop>>

\* step2.run_step2(pipeline_start_time): it merges this cycle's step1.json
\* and returns the summaries after appending them to the history of
\* step2.json as one batch, or finds no match and returns [], or throws.
run_step2(outcome, batch, batches) ==
    CASE outcome = "batch" ->
             [raised |-> FALSE, summaries |-> batch, step2_json |-> Append(batches, batch)]
      [] outcome = "empty" ->
             [raised |-> FALSE, summaries |-> 0, step2_json |-> batches]
      [] outcome = "throws" ->
             [raised |-> TRUE, summaries |-> 0, step2_json |-> batches]

\* Lines 1497-1509: the call of run_step2 in its own try block; summaries
\* is [] when it throws.
Step2Step(outcome) ==
    /\ pc = "step2"
    /\ LET call == run_step2(outcome, cycle, step2_json)
       IN  /\ cycle_summaries' = call.summaries
           /\ step2_json' = call.step2_json
           /\ IF ~call.raised THEN UNCHANGED caught /\ pc' = "step7"
              ELSE IF CaughtInCycle("step2") THEN caught' = caught + 1 /\ pc' = "step7"
              ELSE UNCHANGED caught /\ pc' = "loop_crashed"
    /\ UNCHANGED <<shutdown_requested, cycle, completed, displayed, sleep_time,
                   sleep_elapsed, outside_loop>>

\* Lines 1511-1531.
Step7Step ==
    /\ pc = "step7"
    /\ LET call == CallRunStep7(cycle_summaries, step2_json)
       IN  /\ displayed' = call.displayed
           /\ IF ~call.raised THEN UNCHANGED caught /\ pc' = "rotate"
              ELSE IF CaughtInCycle("step7") THEN caught' = caught + 1 /\ pc' = "rotate"
              ELSE UNCHANGED caught /\ pc' = "loop_crashed"
    /\ UNCHANGED <<shutdown_requested, cycle, completed, cycle_summaries, step2_json,
                   sleep_time, sleep_elapsed, outside_loop>>

\* Lines 1533-1549: the daily rotation file is written or the write throws.
RotateStep(throws, seconds) ==
    /\ pc = "rotate"
    /\ IF ~throws THEN UNCHANGED caught /\ EndCycle(seconds)
       ELSE IF CaughtInCycle("rotate") THEN caught' = caught + 1 /\ EndCycle(seconds)
       ELSE /\ pc' = "loop_crashed"
            /\ UNCHANGED <<completed, caught, sleep_time, sleep_elapsed>>
    /\ UNCHANGED <<shutdown_requested, cycle, cycle_summaries, step2_json, displayed,
                   outside_loop>>

\* Lines 1556-1558: one slice of at most a second.
SleepSlice ==
    /\ pc = "sleep"
    /\ SleepGoesOn(sleep_elapsed, sleep_time, shutdown_requested)
    /\ sleep_elapsed' = sleep_elapsed + 1
    /\ UNCHANGED <<pc, shutdown_requested, cycle, completed, caught, cycle_summaries,
                   step2_json, displayed, sleep_time, outside_loop>>

\* Line 1556, the condition found false.
SleepOver ==
    /\ pc = "sleep"
    /\ ~SleepGoesOn(sleep_elapsed, sleep_time, shutdown_requested)
    /\ pc' = "loop_test"
    /\ UNCHANGED <<shutdown_requested, cycle, completed, caught, cycle_summaries,
                   step2_json, displayed, sleep_time, sleep_elapsed, outside_loop>>

(***************************************************************************)
(* step1.py: the in-play counts of the status summary and of the footer,   *)
(* and the number of summaries Step 7 keeps for the same matches           *)
(***************************************************************************)
\* A match of live_data["results"], with the status_id of its detail
\* record.  status_id and details_status are Absent when the key is
\* missing; score is the list under "score" when has_score.
LiveMatch(id, status_id, has_score, score, details_status) ==
    [match_id |-> IntV(id), status_id |-> status_id, has_score |-> has_score,
     score |-> score, details_status |-> details_status]

\* extract_status_id, step1.py lines 794-796: match.get("status_id") or
\* score[1] when score is a list of more than one element, else None.
extract_status_id(match) ==
    IF Truthy(match.status_id) THEN match.status_id
    ELSE IF match.has_score /\ Len(match.score) > 1 THEN match.score[2]
    ELSE Null

\* step1.py line 1191.
in_play_status_ids == {2, 3, 4, 5, 7}

\* step1.py line 1728.
footer_in_play_ids == {2, 3, 4, 5, 6, 7}

\* The number of matches whose extracted status is one of ids.
CountByStatus(matches, ids) ==
    Cardinality({i \in 1..Len(matches) :
                    LET status_id == extract_status_id(matches[i])
                    IN  status_id.t = "int" /\ status_id.n \in ids})

\* create_unified_status_summary, step1.py lines 1156-1192: the sum, over
\* in_play_status_ids, of the counts per extracted status.
create_unified_status_summary(matches) == CountByStatus(matches, in_play_status_ids)

\* create_comprehensive_footer, step1.py lines 1712-1730.
create_comprehensive_footer(matches) == CountByStatus(matches, footer_in_play_ids)

\* step2.py lines 636-643 and 364: the status_id of the match's summary is
\* the match's own when it has the key, else the one of its details, else 0.
SummaryStatus(match) ==
    IF match.status_id # Absent THEN match.status_id
    ELSE OrDefault(match.details_status, IntV(0))

SummariesOf(matches) ==
    [i \in 1..Len(matches) |->
        [match_id |-> matches[i].match_id, status_id |-> SummaryStatus(matches[i])]]

\* step1.py line 1190 and lines 1156-1192.
CreateUnifiedStatusSummary ==
    /\ pc = "status_summary"
    /\ in_play_matches' = create_unified_status_summary(live_data)
    /\ pc' = "footer"
    /\ UNCHANGED <<live_data, footer_in_play, step7_total, outside_count>>

\* step1.py lines 1712-1730.
CreateComprehensiveFooter ==
    /\ pc = "footer"
    /\ footer_in_play' = create_comprehensive_footer(live_data)
    /\ pc' = "step7_count"
    /\ UNCHANGED <<live_data, in_play_matches, step7_total, outside_count>>

\* step7.py lines 369-378: total = len(filtered).
CountStep7 ==
    /\ pc = "step7_count"
    /\ step7_total' = Len(run_step7(SummariesOf(live_data)))
    /\ pc' = "counted"
    /\ UNCHANGED <<live_data, in_play_matches, footer_in_play, outside_count>>

(***************************************************************************)
(* filter_odds_minutes.py and verify_filtering.py: the stand-alone minute  *)
(* filter and its verification.  An odds dict is the list of its items.    *)
(***************************************************************************)
\* filter_odds_minutes.py line 28, verify_filtering.py line 23.
OddsTypes == <<"asia", "bs", "eu", "cr">>

\* Python's order of two strings: by code point, a proper prefix first.
StrLeq(a, b) == ~StrLess(b, a)

\* filter_odds_minutes.py lines 35-38: minute_field = str(array[1]), kept
\* if minute_field >= min_minute and minute_field <= max_minute.
InMinuteRange(minute, min_minute, max_minute) ==
    /\ StrLeq(min_minute, PyStr(minute))
    /\ StrLeq(PyStr(minute), max_minute)

KeptByMinute(array, min_minute, max_minute) ==
    Len(array) >= 2 /\ InMinuteRange(array[2], min_minute, max_minute)

\* filter_odds_minutes.filter_odds_by_minutes, lines 13-43.
filter_odds_minutes(data, min_minute, max_minute) ==
    LET Kept(array) == KeptByMinute(array, min_minute, max_minute)
        present == SelectSeq(OddsTypes, LAMBDA type : DictHas(data, type))
    IN  [i \in 1..Len(present) |->
            Item(present[i], SelectSeq(DictGet(data, present[i]), Kept))]

\* verify_filtering.py lines 27-47: an entry is reported when its minute
\* converts to a number below 2 or above 6; one whose minute does not
\* convert, or that has no minute, is passed over.
ReportedInvalid(entry) ==
    /\ Len(entry) >= 2
    /\ ParseMinute(entry[2]).ok
    /\ \/ ParseMinute(entry[2]).v < 2
       \/ ParseMinute(entry[2]).v > 6

\* The entries of every market of an odds dict, in the order of OddsTypes.
RECURSIVE EntriesOfTypes(_, _)
EntriesOfTypes(data, types) ==
    IF types = <<>> THEN <<>>
    ELSE (IF DictHas(data, Head(types)) THEN DictGet(data, Head(types)) ELSE <<>>)
         \o EntriesOfTypes(data, Tail(types))

\* verify_filtering, verify_filtering.py lines 8-59.
verify_filtering(data) == SelectSeq(EntriesOfTypes(data, OddsTypes), ReportedInvalid)

\* filter_odds_minutes.main, lines 66-71: the filter with its defaults.
FilterOddsMinutes ==
    /\ pc = "minutes"
    /\ kept_odds' = filter_odds_minutes(company_odds, <<"2">>, <<"6">>)
    /\ pc' = "minutes_filtered"
    /\ UNCHANGED <<company_odds, invalid_entries, outside_minutes>>

VerifyFiltering ==
    /\ pc = "minutes_filtered"
    /\ invalid_entries' = verify_filtering(kept_odds)
    /\ pc' = "minutes_verified"
    /\ UNCHANGED <<company_odds, kept_odds, outside_minutes>>

(***************************************************************************)
(* Inputs of the conversion functions                                      *)
(***************************************************************************)
Chars(str) ==
    CASE str = "" -> <<>>
      [] str = "abc" -> <<"a", "b", "c">>
      [] str = "1.50" -> <<"1", ".", "5", "0">>
      [] str = "2" -> <<"2">>
      [] str = "4" -> <<"4">>
      [] str = "5" -> <<"5">>
      [] str = "0-0" -> <<"0", "-", "0">>
      [] str = "1-0" -> <<"1", "-", "0">>

\* The grid of hundredths, and values that are not floats.
OddInputs ==
    {Num(k) : k \in (0 - MaxNegHundredths)..MaxHundredths}
        \cup {Null, Str(Chars("")), Str(Chars("abc")), Str(Chars("1.50")), Str(Chars("2"))}

OddsSamples == {Num(166), Num(600), Num(85), Null}

LineSamples == {Num(340), Num(0 - 50), Num(0), Null}

\* The fields of an entry the conversion must leave alone.
EntryFrames ==
    { [timestamp |-> IntV(1700000000), minute |-> Str(Chars("4")), status |-> IntV(2),
       sealed |-> IntV(0), score |-> Str(Chars("0-0"))],
      [timestamp |-> IntV(1700000060), minute |-> Str(Chars("5")), status |-> IntV(3),
       sealed |-> IntV(1), score |-> Str(Chars("1-0"))] }

\* [timestamp, minute, val1, val2, val3, status, sealed, score]
Entry(f, val1, val2, val3) ==
    <<f.timestamp, f.minute, val1, val2, val3, f.status, f.sealed, f.score>>

ConvEntries ==
    {Entry(f, v1, v2, v3) : f \in EntryFrames, v1 \in OddsSamples,
                            v2 \in LineSamples, v3 \in OddsSamples}
        \cup {<<IntV(1700000000), Str(Chars("4")), Num(166)>>}

SeqsUpTo(S, n) == UNION {[1..k -> S] : k \in 0..n}

\* Entries of the minute filter's arguments: minutes below, on and above the
\* bounds of the window, an empty and a non-numeric minute, and two entries
\* of one minute with different timestamps and odds.
FilterEntry(ts, minute, val1) ==
    <<IntV(ts), Str(minute), Num(val1), Num(340), Num(600), IntV(2), IntV(0),
      Str(Chars("0-0"))>>

FilterEntries ==
    { FilterEntry(1700000000, <<"2">>, 166),
      FilterEntry(1700000060, <<"2">>, 85),
      FilterEntry(1700000000, <<"6">>, 166),
      FilterEntry(1700000060, <<"1">>, 166),
      FilterEntry(1700000000, <<"7">>, 166),
      FilterEntry(1700000000, <<>>, 166),
      FilterEntry(1700000060, <<"x">>, 166) }

(***************************************************************************)
(* Inputs of merge_and_summarize                                           *)
(***************************************************************************)
Results(list) == [results |-> list]

\* team_info: "10" and "14" have a name, "11" has a record without a name,
\* "12" has an empty result list; "13" is not in it.
TEAM_INFO ==
    << Item(<<"1", "0">>, Results(<<[name |-> Text("Alpha")]>>)),
       Item(<<"1", "4">>, Results(<<[name |-> Text("Beta")]>>)),
       Item(<<"1", "1">>, Results(<<[name |-> Absent]>>)),
       Item(<<"1", "2">>, Results(<<>>)) >>

\* competition_info: "20" is complete, the country of "21" is not in
\* countries, "22" has neither name nor country_id, the country of "24" has
\* no name; "23" is not in it.
COMPETITION_INFO ==
    << Item(<<"2", "0">>, Results(<<[name |-> Text("Liga"), country_id |-> Str(<<"3", "0">>)]>>)),
       Item(<<"2", "1">>, Results(<<[name |-> Text("Cup"), country_id |-> Str(<<"3", "1">>)]>>)),
       Item(<<"2", "2">>, Results(<<[name |-> Absent, country_id |-> Absent]>>)),
       Item(<<"2", "4">>, Results(<<[name |-> Text("Serie"), country_id |-> Str(<<"3", "2">>)]>>)) >>

\* countries, keyed by the id of each country record.
COUNTRIES ==
    << Item(Str(<<"3", "0">>), [name |-> Text("Spain")]),
       Item(Str(<<"3", "2">>), [name |-> Absent]) >>

HomeIds ==
    {Absent, Str(<<"1", "0">>), IntV(10), Str(<<"1", "1">>), Str(<<"1", "2">>),
     Str(<<"1", "3">>)}

AwayIds == {Absent, Str(<<"1", "4">>), Str(<<"1", "3">>)}

CompetitionIds ==
    {Absent, Str(<<"2", "0">>), Str(<<"2", "1">>), Str(<<"2", "2">>), Str(<<"2", "3">>),
     Str(<<"2", "4">>)}

Detail(h, a, c) == [home_team_id |-> h, away_team_id |-> a, competition_id |-> c]

GoodDetail == Detail(Str(<<"1", "0">>), Str(<<"1", "4">>), Str(<<"2", "0">>))

\* The arrays one company quotes, told apart by the first odd.
Quotes(val1) ==
    << FilterEntry(1700000000, <<"4">>, val1),
       FilterEntry(1700000060, <<"4">>, val1 + 1),
       FilterEntry(1700000060, <<"7">>, val1) >>

CompanyOdds(eu, asia, bs, cr) == [eu |-> eu, asia |-> asia, bs |-> bs, cr |-> cr]

\* What one company may send: nothing at all (<<>>), or a record of arrays.
Bet365Choices ==
    { <<>>,
      <<Item(<<"2">>, CompanyOdds(<<>>, <<>>, <<>>, <<>>))>>,
      <<Item(<<"2">>, CompanyOdds(<<>>, <<>>, <<>>, Quotes(90)))>>,
      <<Item(<<"2">>, CompanyOdds(Quotes(166), <<>>, <<>>, Quotes(90)))>> }

CrownChoices ==
    { <<>>, <<Item(<<"3">>, CompanyOdds(<<>>, Quotes(85), <<>>, <<>>))>> }

PinnacleChoices ==
    { <<>>, <<Item(<<"2", "2">>, CompanyOdds(<<>>, <<>>, Quotes(95), <<>>))>> }

\* Company "7" is not in PREFERRED_COMPANIES.
MacauslotChoices ==
    { <<>>, <<Item(<<"7">>, CompanyOdds(Quotes(250), <<>>, <<>>, <<>>))>> }

\* The results of an odds wrapper, in an order that is not the preferred one.
OddsResults ==
    {m \o p \o c \o b : m \in MacauslotChoices, p \in PinnacleChoices,
                        c \in CrownChoices, b \in Bet365Choices}

\* What the fetcher holds for one match: a raw match with or without an id,
\* with or without a detail wrapper, with or without an odds wrapper.
Fetched(has_id, has_detail, detail, has_odds, odds) ==
    [has_id |-> has_id, has_detail |-> has_detail, detail |-> detail,
     has_odds |-> has_odds, odds |-> odds]

FetchedMatches ==
    {Fetched(TRUE, TRUE, Results(<<Detail(h, a, c)>>), FALSE, Results(<<>>)) :
        h \in HomeIds, a \in AwayIds, c \in CompetitionIds}
    \cup {Fetched(TRUE, TRUE, Results(<<GoodDetail>>), TRUE, Results(r)) : r \in OddsResults}
    \cup { Fetched(TRUE, FALSE, Results(<<>>), FALSE, Results(<<>>)),
           Fetched(TRUE, TRUE, Results(<<>>), FALSE, Results(<<>>)),
           Fetched(TRUE, FALSE, Results(<<>>), TRUE,
                   Results(<<Item(<<"3">>, CompanyOdds(<<>>, Quotes(85), <<>>, <<>>))>>)),
           Fetched(FALSE, FALSE, Results(<<>>), FALSE, Results(<<>>)) }

\* The id of the i-th match of the fetch.
MatchId(i) == Str(NatToStr(i))

RawMatches(fetched) ==
    [i \in 1..Len(fetched) |-> [id |-> IF fetched[i].has_id THEN MatchId(i) ELSE Absent]]

RECURSIVE DetailsOf(_, _)
DetailsOf(fetched, i) ==
    IF i > Len(fetched) THEN <<>>
    ELSE (IF fetched[i].has_id /\ fetched[i].has_detail
          THEN <<Item(MatchId(i).s, fetched[i].detail)>> ELSE <<>>)
         \o DetailsOf(fetched, i + 1)

RECURSIVE OddsOf(_, _)
OddsOf(fetched, i) ==
    IF i > Len(fetched) THEN <<>>
    ELSE (IF fetched[i].has_id /\ fetched[i].has_odds
          THEN <<Item(MatchId(i).s, fetched[i].odds)>> ELSE <<>>)
         \o OddsOf(fetched, i + 1)

(***************************************************************************)
(* Inputs of the status filter                                             *)
(***************************************************************************)
\* Every status of the API (0..8), one past it, a missing status_id, a null
\* one and one that is a string.
StatusInputs == {IntV(k) : k \in 0..9} \cup {Absent, Null, Str(<<"4">>)}

\* The summary of the i-th match of a batch.
Summary(i, status_id) == [match_id |-> IntV(i), status_id |-> status_id]

SummaryLists ==
    UNION {{[i \in 1..n |-> Summary(i, statuses[i])] : statuses \in [1..n -> StatusInputs]} :
           n \in 0..MaxSummaries}

(***************************************************************************)
(* Idle values of each component's variables                               *)
(***************************************************************************)
HistIdle ==
    /\ file_kind = "missing"
    /\ history = <<>>
    /\ clock = 0
    /\ appended = <<>>
    /\ save_result = "none"

FilterIdle ==
    /\ odds_data = NoOdds
    /\ filtered_odds = NoOdds
    /\ refiltered_odds = NoOdds

MergeIdle ==
    /\ live_matches = <<>>
    /\ match_details = <<>>
    /\ match_odds = <<>>
    /\ summaries = <<>>
    /\ merge_raised = FALSE

Step7Idle ==
    /\ summaries_list = <<>>
    /\ filtered = <<>>
    /\ inplay_matches = <<>>

\* No step1 process has been started.
PidIdle ==
    /\ pid_file = [exists |-> FALSE, content |-> 0]
    /\ proc_pc = <<>>
    /\ proc_mode = <<>>
    /\ existing_pid = <<>>
    /\ handle_valid = <<>>
    /\ handler_set = <<>>
    /\ shutdown_flag = <<>>
    /\ lock_created = <<>>

StageIdle ==
    /\ countries_doc = [shape |-> "wrapper", records |-> <<>>]
    /\ step2_result = [raised |-> FALSE, summaries |-> <<>>]
    /\ step27_result = [summaries |-> <<>>, errors |-> 0]

FetchIdle ==
    /\ env_credentials = TRUE
    /\ credentials = "unset"
    /\ attempt = 0
    /\ requests_made = 0
    /\ sleeps = <<>>
    /\ responses = <<>>
    /\ fetch_result = "none"

SortIdle ==
    /\ matches_dict = <<>>
    /\ step7_groups = <<>>
    /\ step27_groups = <<>>

LoopIdle ==
    /\ shutdown_requested = FALSE
    /\ cycle = 0
    /\ completed = 0
    /\ caught = 0
    /\ cycle_summaries = 0
    /\ step2_json = <<>>
    /\ displayed = 0
    /\ sleep_time = 0
    /\ sleep_elapsed = 0

\* -1: not counted yet.
CountIdle ==
    /\ live_data = <<>>
    /\ in_play_matches = -1
    /\ footer_in_play = -1
    /\ step7_total = -1

MinutesIdle ==
    /\ company_odds = <<>>
    /\ kept_odds = <<>>
    /\ invalid_entries = <<>>

AlignIdle ==
    /\ extracted_odds = <<>>
    /\ odds_summary = <<>>

NoScores == [present |-> FALSE, items |-> <<>>]

ScoreIdle ==
    /\ home_scores = NoScores
    /\ away_scores = NoScores
    /\ summary_score = <<>>

TailIdle == CountIdle /\ MinutesIdle /\ AlignIdle /\ ScoreIdle

ExtraIdle == SortIdle /\ LoopIdle /\ TailIdle

PipelineIdle == Step7Idle /\ PidIdle /\ StageIdle /\ FetchIdle /\ ExtraIdle

ConvIdle ==
    /\ odd = Null
    /\ american_dec = Null
    /\ american_hk = Null
    /\ odds_array = <<>>
    /\ odds_type = "money_line"
    /\ american_arrays = <<>>

CoreIdle == HistIdle /\ ConvIdle /\ FilterIdle /\ MergeIdle

BaseIdle == CoreIdle /\ Step7Idle /\ PidIdle /\ StageIdle /\ FetchIdle

(***************************************************************************)
(* SpecHistory                                                             *)
(***************************************************************************)
InitHistory ==
    /\ pc = "history"
    /\ HistIdle
    /\ ConvIdle
    /\ FilterIdle
    /\ MergeIdle
    /\ PipelineIdle

NextHistory ==
    \/ SaveOk
    \/ SaveWriteFails
    \/ CorruptHistoryFile

SpecHistory == InitHistory /\ [][NextHistory]_vars

(***************************************************************************)
(* SpecConv: the conversion functions applied to drawn arguments           *)
(***************************************************************************)
ConvertDecimal ==
    /\ pc = "odd"
    /\ american_dec' = convert_decimal_to_american(odd)
    /\ pc' = "decimal_done"
    /\ UNCHANGED <<odd, american_hk, odds_array, odds_type, american_arrays,
                   hist_vars, filter_vars, merge_vars, pipeline_vars>>

ConvertHongKong ==
    /\ pc = "odd"
    /\ american_hk' = convert_hong_kong_to_american(odd)
    /\ pc' = "hong_kong_done"
    /\ UNCHANGED <<odd, american_dec, odds_array, odds_type, american_arrays,
                   hist_vars, filter_vars, merge_vars, pipeline_vars>>

ConvertOddsArray ==
    /\ pc = "array"
    /\ american_arrays' = convert_odds_array(odds_array, odds_type)
    /\ pc' = "array_done"
    /\ UNCHANGED <<odd, american_dec, american_hk, odds_array, odds_type,
                   hist_vars, filter_vars, merge_vars, pipeline_vars>>

InitConv ==
    /\ HistIdle
    /\ FilterIdle
    /\ MergeIdle
    /\ PipelineIdle
    /\ american_dec = Null
    /\ american_hk = Null
    /\ american_arrays = <<>>
    /\ \/ /\ pc = "odd"
          /\ odd \in OddInputs
          /\ odds_array = <<>>
          /\ odds_type = "money_line"
       \/ /\ pc = "array"
          /\ odd = Null
          /\ odds_array \in SeqsUpTo(ConvEntries, MaxArrayLen)
          /\ odds_type \in ODDS_TYPES

NextConv ==
    \/ ConvertDecimal
    \/ ConvertHongKong
    \/ ConvertOddsArray

SpecConv == InitConv /\ [][NextConv]_vars

(***************************************************************************)
(* SpecFilter: the minute filter applied to a drawn mapping, then to its   *)
(* own result                                                              *)
(***************************************************************************)
FilterOdds ==
    /\ pc = "odds_data"
    /\ filtered_odds' = filter_odds_by_minutes(odds_data)
    /\ pc' = "filtered"
    /\ UNCHANGED <<odds_data, refiltered_odds, hist_vars, conv_vars, merge_vars, pipeline_vars>>

FilterAgain ==
    /\ pc = "filtered"
    /\ refiltered_odds' = filter_odds_by_minutes(filtered_odds)
    /\ pc' = "refiltered"
    /\ UNCHANGED <<odds_data, filtered_odds, hist_vars, conv_vars, merge_vars, pipeline_vars>>

InitFilter ==
    /\ pc = "odds_data"
    /\ HistIdle
    /\ ConvIdle
    /\ MergeIdle
    /\ PipelineIdle
    /\ \E ml \in SeqsUpTo(FilterEntries, MaxEntries) :
       \E sp \in SeqsUpTo(FilterEntries, MaxEntries - Len(ml)) :
       \E ou \in SeqsUpTo(FilterEntries, MaxEntries - Len(ml) - Len(sp)) :
       \E cr \in SeqsUpTo(FilterEntries, MaxEntries - Len(ml) - Len(sp) - Len(ou)) :
           odds_data = OddsMapping(ml, sp, ou, cr)
    /\ filtered_odds = NoOdds
    /\ refiltered_odds = NoOdds

NextFilter ==
    \/ FilterOdds
    \/ FilterAgain

SpecFilter == InitFilter /\ [][NextFilter]_vars

(***************************************************************************)
(* SpecMerge: merge_and_summarize applied to a drawn fetch                 *)
(***************************************************************************)
MergeAndSummarize ==
    /\ pc = "merge"
    /\ LET result == merge_and_summarize(live_matches, match_details, match_odds,
                                         TEAM_INFO, COMPETITION_INFO, COUNTRIES)
       IN  /\ summaries' = result.summaries
           /\ merge_raised' = result.raised
    /\ pc' = "merged"
    /\ UNCHANGED <<live_matches, match_details, match_odds,
                   hist_vars, conv_vars, filter_vars, pipeline_vars>>

InitMerge ==
    /\ pc = "merge"
    /\ HistIdle
    /\ ConvIdle
    /\ FilterIdle
    /\ PipelineIdle
    /\ \E fetched \in SeqsUpTo(FetchedMatches, MaxMatches) :
          /\ live_matches = RawMatches(fetched)
          /\ match_details = DetailsOf(fetched, 1)
          /\ match_odds = OddsOf(fetched, 1)
    /\ summaries = <<>>
    /\ merge_raised = FALSE

NextMerge == MergeAndSummarize

SpecMerge == InitMerge /\ [][NextMerge]_vars

(***************************************************************************)
(* SpecStep7: the status filter applied to a drawn list of summaries       *)
(***************************************************************************)
RunStep7 ==
    /\ pc = "step7"
    /\ filtered' = run_step7(summaries_list)
    /\ pc' = "step7_done"
    /\ UNCHANGED <<summaries_list, inplay_matches, outside_step7>>

FilterInplayMatches ==
    /\ pc = "step7_done"
    /\ inplay_matches' = filter_inplay_matches(summaries_list)
    /\ pc' = "rich_done"
    /\ UNCHANGED <<summaries_list, filtered, outside_step7>>

InitStep7 ==
    /\ pc = "step7"
    /\ CoreIdle
    /\ PidIdle
    /\ StageIdle
    /\ FetchIdle
    /\ ExtraIdle
    /\ summaries_list \in SummaryLists
    /\ filtered = <<>>
    /\ inplay_matches = <<>>

NextStep7 ==
    \/ RunStep7
    \/ FilterInplayMatches

SpecStep7 == InitStep7 /\ [][NextStep7]_vars

(***************************************************************************)
(* SpecPid: two step1 processes started in one working directory           *)
(***************************************************************************)
\* step1.pid before the first start: absent, left with content that is no
\* pid, or left by a process (pid 3) that is gone.
InitialPidFiles ==
    {NoFile, [exists |-> TRUE, content |-> 0], [exists |-> TRUE, content |-> 3]}

InitPid ==
    /\ pc = "pid"
    /\ CoreIdle
    /\ Step7Idle
    /\ StageIdle
    /\ FetchIdle
    /\ ExtraIdle
    /\ pid_file \in InitialPidFiles
    /\ proc_pc = [p \in Procs |-> "start"]
    /\ proc_mode \in [Procs -> {"single", "continuous"}]
    /\ existing_pid = [p \in Procs |-> 0]
    /\ handle_valid = [p \in Procs |-> FALSE]
    /\ handler_set = [p \in Procs |-> FALSE]
    /\ shutdown_flag = [p \in Procs |-> FALSE]
    /\ lock_created = [p \in Procs |-> FALSE]

NextPid ==
    \E p \in Procs :
        \/ CheckPidFile(p)
        \/ ReadPidFile(p)
        \/ ProbePid(p)
        \/ RemoveOldPidFile(p)
        \/ OpenPidFileForWrite(p)
        \/ WritePid(p)
        \/ EnterCycle(p)
        \/ LeaveCycle(p)
        \/ CleanupCheck(p)
        \/ CleanupRemove(p)
        \/ SigtermHandled(p)
        \/ SigtermDefault(p)

SpecPid == InitPid /\ [][NextPid]_vars

(***************************************************************************)
(* SpecFetch: start-up of step1 and one call of fetch_json                 *)
(***************************************************************************)
InitFetch ==
    /\ pc = "startup"
    /\ CoreIdle
    /\ Step7Idle
    /\ PidIdle
    /\ StageIdle
    /\ ExtraIdle
    /\ env_credentials \in BOOLEAN
    /\ credentials = "unset"
    /\ attempt = 0
    /\ requests_made = 0
    /\ sleeps = <<>>
    /\ responses = <<>>
    /\ fetch_result = "none"

NextFetch ==
    \/ LoadCredentials
    \/ \E outcome \in Outcomes : Request(outcome)
    \/ Backoff

SpecFetch == InitFetch /\ [][NextFetch]_vars

(***************************************************************************)
(* SpecStage: one run of step2.main and of step27.extract_merge_summarize  *)
(* on the same step1.json                                                  *)
(***************************************************************************)
\* The matches of a batch: complete ones of three competitions, one whose
\* competition is unknown, one without competition, one without a detail
\* record.
StageMatches ==
    {Fetched(TRUE, TRUE, Results(<<Detail(Str(<<"1", "0">>), Str(<<"1", "4">>), c)>>),
             FALSE, Results(<<>>)) :
        c \in {Str(<<"2", "0">>), Str(<<"2", "1">>), Str(<<"2", "4">>), Str(<<"2", "3">>),
               Absent}}
    \cup {Fetched(TRUE, FALSE, Results(<<>>), FALSE, Results(<<>>))}

\* The id of a country record as a JSON number.
NumericId(id) == IntV(DigitsValue(id.s))

\* The records of the countries document: those of COUNTRIES with their ids
\* as JSON strings, the same with their ids as JSON numbers, or none.
CountryRecords ==
    { <<>>,
      [i \in 1..Len(COUNTRIES) |-> [id |-> COUNTRIES[i].key, name |-> COUNTRIES[i].value.name]],
      [i \in 1..Len(COUNTRIES) |->
          [id |-> NumericId(COUNTRIES[i].key), name |-> COUNTRIES[i].value.name]] }

RunStep2Main ==
    /\ pc = "stage"
    /\ step2_result' = Step2Main(live_matches, match_details, match_odds,
                                 TEAM_INFO, COMPETITION_INFO, countries_doc)
    /\ pc' = "step2_done"
    /\ UNCHANGED <<countries_doc, step27_result, outside_stage>>

ExtractMergeSummarize ==
    /\ pc = "step2_done"
    /\ step27_result' = ProcessSummaries(live_matches, 1, match_details,
                                         COMPETITION_INFO, countries_doc)
    /\ pc' = "step27_done"
    /\ UNCHANGED <<countries_doc, step2_result, outside_stage>>

InitStage ==
    /\ pc = "stage"
    /\ HistIdle
    /\ ConvIdle
    /\ FilterIdle
    /\ Step7Idle
    /\ PidIdle
    /\ FetchIdle
    /\ ExtraIdle
    /\ \E fetched \in SeqsUpTo(StageMatches, MaxBatch) :
          /\ live_matches = RawMatches(fetched)
          /\ match_details = DetailsOf(fetched, 1)
          /\ match_odds = OddsOf(fetched, 1)
    /\ summaries = <<>>
    /\ merge_raised = FALSE
    /\ \E shape \in CountryShapes, records \in CountryRecords :
          countries_doc = [shape |-> shape, records |-> records]
    /\ step2_result = [raised |-> FALSE, summaries |-> <<>>]
    /\ step27_result = [summaries |-> <<>>, errors |-> 0]

NextStage ==
    \/ RunStep2Main
    \/ ExtractMergeSummarize

SpecStage == InitStage /\ [][NextStage]_vars

(***************************************************************************)
(* SpecSort: both sort_matches_by_competition_and_time functions applied   *)
(* to one argument                                                         *)
(***************************************************************************)
\* Matches as step2 summarizes them (competition a name, country at the top
\* level) and as step27 does (competition a dict holding the country), of
\* two competitions and two countries; one without competition, country and
\* status; one whose country is the text "Unknown".
SortSamples ==
    LET A == Str(<<"A">>)
        AB == Str(<<"A", "B">>)
        C == Str(<<"C">>)
        Ba == Str(<<"B", "a">>)
        Ab == Str(<<"A", "b">>)
        Unk == Str(UnknownCountry)
    IN  { MatchData(Absent, IntV(2), A, FALSE, Absent, C, Unk),
          MatchData(Absent, IntV(3), A, FALSE, Absent, C, Unk),
          MatchData(Absent, IntV(2), AB, FALSE, Absent, Ba, Unk),
          MatchData(Absent, IntV(3), AB, FALSE, Absent, C, Unk),
          MatchData(Absent, IntV(2), A, TRUE, C, Absent, Unk),
          MatchData(Absent, IntV(3), AB, TRUE, Ba, Absent, Unk),
          MatchData(Absent, IntV(7), A, TRUE, Null, Absent, Ab),
          MatchData(Absent, Absent, Null, FALSE, Absent, Null, Ab),
          MatchData(Absent, IntV(1), A, FALSE, Absent, Unk, Unk) }

\* The argument built from n samples: the ids run up or down the dict order.
SortArgument(samples, descending) ==
    [i \in 1..Len(samples) |->
        LET id == Str(NatToStr(IF descending THEN Len(samples) + 1 - i ELSE i))
        IN  Item(id.s, [samples[i] EXCEPT !.match_id = id])]

InitSort ==
    /\ pc = "sort"
    /\ BaseIdle
    /\ LoopIdle
    /\ TailIdle
    /\ \E samples \in SeqsUpTo(SortSamples, MaxSortMatches), descending \in BOOLEAN :
          matches_dict = SortArgument(samples, descending)
    /\ step7_groups = <<>>
    /\ step27_groups = <<>>

NextSort ==
    \/ SortWithStep7
    \/ SortWithStep27

SpecSort == InitSort /\ [][NextSort]_vars

(***************************************************************************)
(* SpecLoop: continuous_loop from the first test of its while loop, the    *)
(* signal handlers registered.  Every step of the loop is taken sooner or  *)
(* later (the sub-steps of a cycle terminate); a signal may never come.    *)
(***************************************************************************)
InitLoop ==
    /\ pc = "loop_test"
    /\ BaseIdle
    /\ SortIdle
    /\ LoopIdle
    /\ TailIdle

LoopSteps ==
    \/ LoopTest
    \/ \E throws \in BOOLEAN, seconds \in 0..MaxSleep : FetchStep(throws, seconds)
    \/ \E outcome \in {"batch", "empty", "throws"} : Step2Step(outcome)
    \/ Step7Step
    \/ \E throws \in BOOLEAN, seconds \in 0..MaxSleep : RotateStep(throws, seconds)
    \/ SleepSlice
    \/ SleepOver

NextLoop ==
    \/ LoopSteps
    \/ Signal

SpecLoop == InitLoop /\ [][NextLoop]_vars /\ WF_vars(LoopSteps)

(***************************************************************************)
(* SpecCount: the three in-play counts of one batch of live matches        *)
(***************************************************************************)
\* The statuses a live match may carry: none, 0 (falsy), three in-play ones
\* (6 among them) and a finished one.
LiveStatuses == {Absent, IntV(0), IntV(2), IntV(6), IntV(8)}

\* The score lists: none, one too short to hold a status, one with an
\* in-play status in its second place.
LiveScores ==
    {[has_score |-> FALSE, score |-> <<>>],
     [has_score |-> TRUE, score |-> <<Text("id")>>],
     [has_score |-> TRUE, score |-> <<Text("id"), IntV(3)>>]}

\* The status_id of the detail record: none, or an in-play one.
DetailStatuses == {Absent, IntV(4)}

LiveMatches ==
    {LiveMatch(0, status_id, score.has_score, score.score, details_status) :
        status_id \in LiveStatuses, score \in LiveScores, details_status \in DetailStatuses}

LiveBatches ==
    UNION {{[i \in 1..n |-> [batch[i] EXCEPT !.match_id = IntV(i)]] :
            batch \in [1..n -> LiveMatches]} :
           n \in 0..MaxLive}

InitCount ==
    /\ pc = "status_summary"
    /\ BaseIdle
    /\ SortIdle
    /\ LoopIdle
    /\ MinutesIdle
    /\ AlignIdle
    /\ ScoreIdle
    /\ live_data \in LiveBatches
    /\ in_play_matches = -1
    /\ footer_in_play = -1
    /\ step7_total = -1

NextCount ==
    \/ CreateUnifiedStatusSummary
    \/ CreateComprehensiveFooter
    \/ CountStep7

SpecCount == InitCount /\ [][NextCount]_vars

(***************************************************************************)
(* SpecMinutes: the stand-alone minute filter, then its verification       *)
(***************************************************************************)
\* Minutes as the feed gives them (strings) and as integers: below, inside
\* and above the window with one digit, and with two digits.
MinuteFields ==
    {Str(<<>>), Str(<<"1">>), Str(<<"2">>), Str(<<"6">>), Str(<<"7">>),
     Str(<<"2", "5">>), Str(<<"4", "5">>), IntV(5), IntV(45)}

\* An entry with its minute in the second place, or one too short for it.
MinuteEntries == {<<IntV(1700), m, Num(150)>> : m \in MinuteFields} \cup {<<IntV(1700)>>}

\* An odds dict with the keys asia and bs, and neither eu nor cr.
InitMinutes ==
    /\ pc = "minutes"
    /\ BaseIdle
    /\ SortIdle
    /\ LoopIdle
    /\ CountIdle
    /\ AlignIdle
    /\ ScoreIdle
    /\ \E asia \in SeqsUpTo(MinuteEntries, MaxMinuteEntries) :
       \E bs \in SeqsUpTo(MinuteEntries, MaxMinuteEntries - Len(asia)) :
           company_odds = <<Item("bs", bs), Item("asia", asia)>>
    /\ kept_odds = <<>>
    /\ invalid_entries = <<>>

NextMinutes ==
    \/ FilterOddsMinutes
    \/ VerifyFiltering

SpecMinutes == InitMinutes /\ [][NextMinutes]_vars

(***************************************************************************)
(* SpecAlign: the odds fields of one summary, from the extracted odds of   *)
(* one company: the minute filter, then convert_odds_array per market      *)
(***************************************************************************)
\* step2.py lines 711-744.
SummarizeOdds ==
    /\ pc = "odds_fields"
    /\ odds_summary' = OddsFields(extracted_odds)
    /\ pc' = "odds_summarized"
    /\ UNCHANGED <<extracted_odds, outside_align>>

\* Entries the minute filter reads the minute of (two elements or more):
\* of eight elements inside and outside the window, of nine, and of three
\* and of seven.
AlignEntries ==
    { FilterEntry(1700000000, <<"4">>, 166),
      FilterEntry(1700000060, <<"5">>, 85),
      FilterEntry(1700000000, <<"7">>, 166),
      Append(FilterEntry(1700000060, <<"3">>, 166), Null),
      <<IntV(1700000000), Str(<<"4">>), Num(166)>>,
      SubSeq(FilterEntry(1700000060, <<"6">>, 85), 1, 7) }

InitAlign ==
    /\ pc = "odds_fields"
    /\ BaseIdle
    /\ SortIdle
    /\ LoopIdle
    /\ CountIdle
    /\ MinutesIdle
    /\ ScoreIdle
    /\ \E ml \in SeqsUpTo(AlignEntries, MaxAlignEntries) :
       \E sp \in SeqsUpTo(AlignEntries, MaxAlignEntries - Len(ml)) :
       \E ou \in SeqsUpTo(AlignEntries, MaxAlignEntries - Len(ml) - Len(sp)) :
       \E cr \in SeqsUpTo(AlignEntries, MaxAlignEntries - Len(ml) - Len(sp) - Len(ou)) :
           extracted_odds = <<Item(PREFERRED_COMPANIES[1], OddsMapping(ml, sp, ou, cr))>>
    /\ odds_summary = <<>>

NextAlign == SummarizeOdds

SpecAlign == InitAlign /\ [][NextAlign]_vars

(***************************************************************************)
(* SpecScore: the score string of step2.extract_summary_fields             *)
(***************************************************************************)
\* step2.py line 362, one side: match.get(side, [0])[-1] if match.get(side)
\* else 0, as the f-string writes it.
SideScore(scores) ==
    IF scores.present /\ scores.items # <<>>
    THEN PyStr(scores.items[Len(scores.items)])
    ELSE <<"0">>

\* step2.py line 362: the "score" of the summary.
ScoreString(home, away) == SideScore(home) \o <<"-">> \o SideScore(away)

ExtractSummaryFields ==
    /\ pc = "score"
    /\ summary_score' = ScoreString(home_scores, away_scores)
    /\ pc' = "score_extracted"
    /\ UNCHANGED <<home_scores, away_scores, outside_score>>

\* A side's scores: no key, or a list of up to MaxScoreLen numbers, the
\* score of regular time first.
SideScores ==
    {NoScores} \cup
    {[present |-> TRUE, items |-> items] :
        items \in SeqsUpTo({IntV(k) : k \in 0..2}, MaxScoreLen)}

InitScore ==
    /\ pc = "score"
    /\ BaseIdle
    /\ SortIdle
    /\ LoopIdle
    /\ CountIdle
    /\ MinutesIdle
    /\ AlignIdle
    /\ home_scores \in SideScores
    /\ away_scores \in SideScores
    /\ summary_score = <<>>

NextScore == ExtractSummaryFields

SpecScore == InitScore /\ [][NextScore]_vars

(***************************************************************************)
(* C1: after a successful save the stored history holds at most            *)
(* MAX_HISTORY_ENTRIES batches, and once more than MAX_HISTORY_ENTRIES     *)
(* batches were appended it holds exactly the MAX_HISTORY_ENTRIES most     *)
(* recently appended ones, in insertion order.                             *)
(***************************************************************************)
C1_HistoryFifoCap ==
    (save_result = "True") =>
        /\ Len(history) <= MAX_HISTORY_ENTRIES
        /\ Len(appended) > MAX_HISTORY_ENTRIES =>
              history = [i \in 1..MAX_HISTORY_ENTRIES |->
                           Batch(appended[Len(appended) - MAX_HISTORY_ENTRIES + i])]

(***************************************************************************)
(* Properties of the minute filter                                         *)
(***************************************************************************)
\* The minute of an entry the filter returned, parsed as an integer.
MinuteOf(entry) == ParseMinute(entry[2]).v

\* The positions of the input arrays of one market whose minute parses to m.
InputGroup(type, m) ==
    {i \in 1..Len(odds_data[type]) :
        /\ Len(odds_data[type][i]) >= 2
        /\ ParseMinute(odds_data[type][i][2]).ok
        /\ MinuteOf(odds_data[type][i]) = m}

(***************************************************************************)
(* C2: in every market of the filter's output each entry's minute, parsed  *)
(* as an integer, lies in 2..6, no two entries share a minute, and so a    *)
(* market holds at most 5 entries.                                         *)
(***************************************************************************)
C2_MinutesInWindowAndUnique ==
    (pc \in {"filtered", "refiltered"}) =>
        \A type \in ODDS_TYPES :
            /\ type \in DOMAIN filtered_odds
            /\ Len(filtered_odds[type]) <= 5
            /\ \A i \in 1..Len(filtered_odds[type]) :
                  /\ Len(filtered_odds[type][i]) >= 2
                  /\ ParseMinute(filtered_odds[type][i][2]).ok
                  /\ MinuteOf(filtered_odds[type][i]) \in 2..6
            /\ \A i, j \in 1..Len(filtered_odds[type]) :
                  i # j => MinuteOf(filtered_odds[type][i]) # MinuteOf(filtered_odds[type][j])

\* A market whose input holds a minute outside the window, a minute that
\* does not parse, and two entries of one minute inside it.
C2_Witness ==
    /\ pc = "filtered"
    /\ InputGroup("spread", 7) # {}
    /\ Cardinality(InputGroup("spread", 2)) = 2
    /\ Len(filtered_odds["spread"]) = 1

(***************************************************************************)
(* C3: for every market and every minute m in 2..6 that occurs in the      *)
(* input, the output holds exactly one entry of minute m, an input entry   *)
(* of that minute with the largest timestamp; minutes 1 and 7 (and any     *)
(* minute that does not occur) contribute nothing; the output is in        *)
(* ascending order of minute.                                              *)
(***************************************************************************)
C3_LatestPerMinuteAscending ==
    (pc \in {"filtered", "refiltered"}) =>
        \A type \in ODDS_TYPES :
            LET inp == odds_data[type]
                out == filtered_odds[type]
                at(m) == {k \in 1..Len(out) : MinuteOf(out[k]) = m}
            IN  /\ \A m \in 2..6 :
                      IF InputGroup(type, m) = {} THEN at(m) = {}
                      ELSE /\ Cardinality(at(m)) = 1
                           /\ \A k \in at(m) :
                                 /\ \E i \in InputGroup(type, m) : out[k] = inp[i]
                                 /\ \A i \in InputGroup(type, m) : inp[i][1].n <= out[k][1].n
                /\ at(1) = {}
                /\ at(7) = {}
                /\ \A k \in 1..Len(out) : \E m \in 2..6 : k \in at(m)
                /\ \A k, l \in 1..Len(out) : k < l => MinuteOf(out[k]) < MinuteOf(out[l])

\* Minute 6 before minute 2 in the input and the older entry of minute 2
\* last: the output is the newer entry of minute 2, then minute 6.
C3_Witness ==
    /\ pc = "filtered"
    /\ odds_data["money_line"] =
          << FilterEntry(1700000000, <<"6">>, 166),
             FilterEntry(1700000060, <<"2">>, 85),
             FilterEntry(1700000000, <<"2">>, 166) >>
    /\ filtered_odds["money_line"] =
          << FilterEntry(1700000060, <<"2">>, 85),
             FilterEntry(1700000000, <<"6">>, 166) >>

(***************************************************************************)
(* C4: filtering the filter's output gives that output again: the same     *)
(* markets, the same entries, in the same order.                           *)
(***************************************************************************)
C4_FilterIdempotent ==
    (pc = "refiltered") => refiltered_odds = filtered_odds

\* A second pass over an output of two minutes, one of them chosen among
\* two entries of the input.
C4_Witness ==
    /\ pc = "refiltered"
    /\ Len(filtered_odds["over_under"]) = 2
    /\ Cardinality(InputGroup("over_under", 2)) = 2
    /\ refiltered_odds["over_under"] = filtered_odds["over_under"]

(***************************************************************************)
(* Properties of the odds conversion                                       *)
(***************************************************************************)
\* r is the integer nearest to num / den (den > 0), the even one of the two
\* when num / den lies half way between two integers.
IsRounded(r, num, den) ==
    LET twice == IF 2 * (r * den - num) >= 0 THEN 2 * (r * den - num)
                 ELSE 2 * (num - r * den)
    IN  /\ twice <= den
        /\ twice = den => r % 2 = 0

\* The values of the model float() rejects.
NotNumeric(x) == x \in {Null, Str(Chars("")), Str(Chars("abc"))}

(***************************************************************************)
(* The match a summary was made from, as merge_and_summarize was given it  *)
(***************************************************************************)
\* The companies of the odds wrapper of the match with this id.
GivenOdds(id) ==
    IF DictHas(match_odds, id) THEN DictGet(match_odds, id).results ELSE <<>>

\* The company is in the given odds with a non-empty eu, asia or bs array.
Qualifies(given, company_id) ==
    \E j \in 1..Len(given) :
        /\ given[j].key = company_id
        /\ \/ given[j].value.eu # <<>>
           \/ given[j].value.asia # <<>>
           \/ given[j].value.bs # <<>>

Elements(seq) == {seq[j] : j \in 1..Len(seq)}

MarketFields == {"money_line", "spread", "over_under", "corners"}

AmericanFields ==
    {"money_line_american", "spread_american", "over_under_american", "corners_american"}

(***************************************************************************)
(* C5: in every summary merge_and_summarize returns, the company is the    *)
(* first id of PREFERRED_COMPANIES that qualifies in the match's odds      *)
(* (non-empty money line, spread or over/under array), never a later one   *)
(* and never one skipped over for having corners only; the summary's odds  *)
(* hold that company alone, and its market arrays are entries of that      *)
(* company's arrays.  With no qualifying company none is selected.         *)
(***************************************************************************)
C5_FirstPreferredCompanyOnly ==
    pc = "merged" =>
        \A i \in 1..Len(summaries) :
            LET summary == summaries[i]
                given == GivenOdds(PyStr(summary.match_id))
                ranks == {k \in 1..Len(PREFERRED_COMPANIES) :
                             Qualifies(given, PREFERRED_COMPANIES[k])}
            IN  IF ranks = {}
                THEN summary.odds_company_id = Null /\ summary.odds = <<>>
                ELSE LET first == CHOOSE k \in ranks : \A j \in ranks : k <= j
                         company == PREFERRED_COMPANIES[first]
                         quoted == DictGet(given, company)
                     IN  /\ summary.odds_company_id = Str(company)
                         /\ Len(summary.odds) = 1
                         /\ summary.odds[1].key = company
                         /\ \A field \in MarketFields :
                               summary[field] = summary.odds[1].value[field]
                         /\ Elements(summary.money_line) \subseteq Elements(quoted.eu)
                         /\ Elements(summary.spread) \subseteq Elements(quoted.asia)
                         /\ Elements(summary.over_under) \subseteq Elements(quoted.bs)
                         /\ Elements(summary.corners) \subseteq Elements(quoted.cr)

\* BET365 quotes corners only, Crown a spread, Pinnacle an over/under and
\* Macauslot (not preferred) a money line: Crown is selected.
C5_Witness ==
    /\ pc = "merged"
    /\ Len(summaries) = 1
    /\ LET given == GivenOdds(PyStr(summaries[1].match_id))
       IN  /\ Len(given) = 4
           /\ DictGet(given, <<"2">>).cr # <<>>
           /\ ~Qualifies(given, <<"2">>)
           /\ Qualifies(given, <<"2", "2">>)
           /\ Qualifies(given, <<"7">>)
    /\ summaries[1].odds_company_id = Str(<<"3">>)
    /\ summaries[1].odds_company_name = Text("Crown")
    /\ summaries[1].spread # <<>>
    /\ summaries[1].corners = <<>>

(***************************************************************************)
(* C6: once merge_and_summarize has run, it has not raised, and every      *)
(* match with an id whose odds hold no company with data (or that has no   *)
(* odds) has a summary with empty money_line, spread, over_under, corners  *)
(* and *_american lists and null odds_company_id and odds_company_name.    *)
(***************************************************************************)
C6_NoCompanyDataStillSummarized ==
    pc = "merged" =>
        \A m \in 1..Len(live_matches) :
            LET match == live_matches[m]
                given == GivenOdds(PyStr(OrDefault(match.id, Str(<<>>))))
            IN  (/\ HasId(match)
                 /\ \A k \in 1..Len(PREFERRED_COMPANIES) :
                       ~Qualifies(given, PREFERRED_COMPANIES[k]))
                => /\ ~merge_raised
                   /\ \E i \in 1..Len(summaries) :
                         /\ summaries[i].match_id = match.id
                         /\ \A field \in MarketFields \cup AmericanFields :
                               summaries[i][field] = <<>>
                         /\ summaries[i].odds_company_id = Null
                         /\ summaries[i].odds_company_name = Null

(***************************************************************************)
(* C10: in every summary merge_and_summarize returns, home, away,          *)
(* competition and country are strings (present, not null); when the       *)
(* match's home_team_id (away_team_id) is not a key of team_info the home  *)
(* (away) name is "Unknown", when its competition_id is not a key of       *)
(* competition_info the competition and country names are "Unknown", and   *)
(* when the competition's country_id is not a key of countries the country *)
(* name is "Unknown".                                                      *)
(***************************************************************************)
\* The detail record of the match a summary was made from.
GivenDetail(summary) == DictGet(match_details, PyStr(summary.match_id)).results[1]

\* The match has no such id, or the id is not a key of the lookup table.
NotIn(id, info) == id = Absent \/ ~DictHas(info, PyStr(id))

\* The country_id of the competition with this id, Absent without one.
CountryIdOf(competition_id) ==
    IF NotIn(competition_id, COMPETITION_INFO) THEN Absent
    ELSE LET results == DictGet(COMPETITION_INFO, PyStr(competition_id)).results
         IN  IF results = <<>> THEN Absent ELSE results[1].country_id

C10_NamesNeverNull ==
    pc = "merged" =>
        \A i \in 1..Len(summaries) :
            LET summary == summaries[i]
                given == GivenDetail(summary)
                country_id == CountryIdOf(given.competition_id)
            IN  /\ \A field \in {"home", "away", "competition", "country"} :
                      summary[field].t = "str"
                /\ NotIn(given.home_team_id, TEAM_INFO) => summary.home = Text("Unknown")
                /\ NotIn(given.away_team_id, TEAM_INFO) => summary.away = Text("Unknown")
                /\ NotIn(given.competition_id, COMPETITION_INFO)
                      => summary.competition = Text("Unknown")
                /\ (country_id = Absent \/ ~DictHas(COUNTRIES, country_id))
                      => summary.country = Text("Unknown")

\* Home team "13" is in no table, away team "14" is; competition "21" is in
\* competition_info and its country "31" is not in countries.
C10_Witness ==
    /\ pc = "merged"
    /\ Len(summaries) = 1
    /\ GivenDetail(summaries[1]) =
           Detail(Str(<<"1", "3">>), Str(<<"1", "4">>), Str(<<"2", "1">>))
    /\ summaries[1].home = Text("Unknown")
    /\ summaries[1].away = Text("Beta")
    /\ summaries[1].competition = Text("Cup")
    /\ summaries[1].country = Text("Unknown")

(***************************************************************************)
(* C11: merge_and_summarize does not raise on absent or non-matching       *)
(* foreign keys: once it has run it has not raised, and every match with   *)
(* an id that has no detail record (no wrapper, or an empty results list)  *)
(* has a summary whose home, away, competition and country names are       *)
(* "Unknown".                                                              *)
(***************************************************************************)
\* The match with this id has no detail record.
NoDetailRecord(id) ==
    ~DictHas(match_details, id) \/ DictGet(match_details, id).results = <<>>

C11_MissingKeysNeverRaise ==
    pc = "merged" =>
        /\ ~merge_raised
        /\ \A m \in 1..Len(live_matches) :
              (HasId(live_matches[m]) /\ NoDetailRecord(PyStr(live_matches[m].id)))
              => \E i \in 1..Len(summaries) :
                    /\ summaries[i].match_id = live_matches[m].id
                    /\ \A field \in {"home", "away", "competition", "country"} :
                          summaries[i][field] = Text("Unknown")

(***************************************************************************)
(* C7: on the grid of hundredths, convert_decimal_to_american gives        *)
(* round((d-1)*100), positive, for d >= 2.00; round(-100/(d-1)), negative, *)
(* for 1.00 < d < 2.00; null for d < 1.00, for d = 1.00 and for a value    *)
(* that is not numeric.  2.00 gives 100 and 1.50 gives -200.               *)
(***************************************************************************)
C7_DecimalToAmerican ==
    (pc = "decimal_done") =>
        /\ (odd.t = "num" /\ odd.n >= 200) =>
              /\ american_dec.t = "int"
              /\ american_dec.n > 0
              /\ IsRounded(american_dec.n, (odd.n - 100) * 100, 100)
        /\ (odd.t = "num" /\ odd.n > 100 /\ odd.n < 200) =>
              /\ american_dec.t = "int"
              /\ american_dec.n < 0
              /\ IsRounded(american_dec.n, 0 - 10000, odd.n - 100)
        /\ (odd.t = "num" /\ odd.n <= 100) => american_dec = Null
        /\ NotNumeric(odd) => american_dec = Null
        /\ odd = Num(200) => american_dec = IntV(100)
        /\ odd = Num(150) => american_dec = IntV(0 - 200)

\* 1.32: -100/0.32 = -312.5 lies half way, and Python rounds it to -312.
C7_Witness ==
    /\ pc = "decimal_done"
    /\ odd = Num(132)
    /\ american_dec = IntV(0 - 312)

(***************************************************************************)
(* C8: on the grid of hundredths, convert_hong_kong_to_american gives      *)
(* round(h*100), positive, for h >= 1.00; round(-100/h), negative, for     *)
(* 0 < h < 1.00; null for h <= 0 and for a value that is not numeric.      *)
(* 1.50 gives 150 and 0.85 gives -118.                                     *)
(***************************************************************************)
C8_HongKongToAmerican ==
    (pc = "hong_kong_done") =>
        /\ (odd.t = "num" /\ odd.n >= 100) =>
              /\ american_hk.t = "int"
              /\ american_hk.n > 0
              /\ IsRounded(american_hk.n, odd.n * 100, 100)
        /\ (odd.t = "num" /\ odd.n > 0 /\ odd.n < 100) =>
              /\ american_hk.t = "int"
              /\ american_hk.n < 0
              /\ IsRounded(american_hk.n, 0 - 10000, odd.n)
        /\ (odd.t = "num" /\ odd.n <= 0) => american_hk = Null
        /\ NotNumeric(odd) => american_hk = Null
        /\ odd = Num(150) => american_hk = IntV(150)
        /\ odd = Num(85) => american_hk = IntV(0 - 118)

C8_Witness ==
    /\ pc = "hong_kong_done"
    /\ odd = Num(85)
    /\ american_hk = IntV(0 - 118)

(***************************************************************************)
(* C9: for a money-line array, convert_odds_array keeps timestamp, minute, *)
(* status, sealed and score of every entry and replaces each of the three  *)
(* odds that has an American value by that value as a string: '+' and the  *)
(* digits for a positive value, '-' and the digits for a negative one.     *)
(* [1700000000, "4", 1.66, 3.40, 6.00, 2, 0, "0-0"] yields "-152", "+240", *)
(* "+500".                                                                 *)
(***************************************************************************)
ExampleEntry ==
    <<IntV(1700000000), Str(<<"4">>), Num(166), Num(340), Num(600), IntV(2), IntV(0),
      Str(<<"0", "-", "0">>)>>

ExampleAmerican ==
    <<IntV(1700000000), Str(<<"4">>), Str(<<"-", "1", "5", "2">>),
      Str(<<"+", "2", "4", "0">>), Str(<<"+", "5", "0", "0">>), IntV(2), IntV(0),
      Str(<<"0", "-", "0">>)>>

\* rendered is the American value of a decimal odd, as a signed string.
IsSignedString(rendered, decimal_odd) ==
    LET a == convert_decimal_to_american(decimal_odd)
    IN  a.t = "int" =>
            /\ rendered.t = "str"
            /\ Len(rendered.s) >= 2
            /\ AllDigits(Tail(rendered.s))
            /\ a.n > 0 => rendered.s[1] = "+" /\ DigitsValue(Tail(rendered.s)) = a.n
            /\ a.n < 0 => rendered.s[1] = "-" /\ DigitsValue(Tail(rendered.s)) = 0 - a.n
            /\ a.n # 0

C9_MoneyLineAmericanStrings ==
    (pc = "array_done" /\ odds_type = "money_line") =>
        LET entries == SelectSeq(odds_array, LongEnough)
        IN  /\ Len(american_arrays) = Len(entries)
            /\ \A i \in 1..Len(entries) :
                  /\ \A k \in {1, 2, 6, 7, 8} : american_arrays[i][k] = entries[i][k]
                  /\ \A k \in {3, 4, 5} : IsSignedString(american_arrays[i][k], entries[i][k])
                  /\ entries[i] = ExampleEntry => american_arrays[i] = ExampleAmerican

C9_Witness ==
    /\ pc = "array_done"
    /\ odds_type = "money_line"
    /\ odds_array = <<ExampleEntry>>
    /\ american_arrays = <<ExampleAmerican>>

(***************************************************************************)
(* C12: the status filter keeps exactly the summaries whose status_id is   *)
(* one of 2, 3, 4, 5, 6, 7: each such summary of the input is in the       *)
(* output of run_step7 and of filter_inplay_matches, and nothing else is.  *)
(* Of a summary with status 4 and one with status 1 only the first stays.  *)
(***************************************************************************)
HasInplayStatus(summary) ==
    summary.status_id.t = "int" /\ summary.status_id.n \in 2..7

C12_StatusFilterExact ==
    /\ pc \in {"step7_done", "rich_done"} =>
          /\ \A i \in 1..Len(summaries_list) :
                HasInplayStatus(summaries_list[i])
                    <=> \E j \in 1..Len(filtered) : filtered[j].value = summaries_list[i]
          /\ \A j \in 1..Len(filtered) :
                \E i \in 1..Len(summaries_list) :
                    /\ filtered[j].value = summaries_list[i]
                    /\ HasInplayStatus(summaries_list[i])
          /\ \A j, k \in 1..Len(filtered) : j # k => filtered[j].key # filtered[k].key
    /\ pc = "rich_done" =>
          /\ \A i \in 1..Len(summaries_list) :
                HasInplayStatus(summaries_list[i])
                    <=> \E j \in 1..Len(inplay_matches) :
                            inplay_matches[j] = summaries_list[i]
          /\ \A j \in 1..Len(inplay_matches) : HasInplayStatus(inplay_matches[j])
          /\ Len(inplay_matches) <= Len(summaries_list)

C12_Witness ==
    /\ pc = "rich_done"
    /\ summaries_list = <<Summary(1, IntV(4)), Summary(2, IntV(1))>>
    /\ filtered = <<Item(<<"1">>, Summary(1, IntV(4)))>>
    /\ inplay_matches = <<Summary(1, IntV(4))>>

(***************************************************************************)
(* C13: a call of save_match_summaries that finds the history file missing *)
(* or unreadable as JSON, and whose write succeeds, starts from an empty   *)
(* history: it stores the history holding the current batch alone and      *)
(* returns True.                                                           *)
(***************************************************************************)
C13_UnreadableFileFallsBack ==
    [][(file_kind \in {"missing", "corrupt"} /\ SaveOk)
          => /\ save_result' = "True"
             /\ file_kind' = "doc"
             /\ history' = <<Batch(clock')>>]_vars

(***************************************************************************)
(* C14: the PID-file lock keeps the fetch cycle to one process: at no time *)
(* are two step1 processes both past create_pid_file and in their fetch    *)
(* cycle.                                                                  *)
(***************************************************************************)
C14_OneFetcherAtATime ==
    pc = "pid" =>
        \A p, q \in Procs :
            (proc_pc[p] = "running" /\ proc_pc[q] = "running") => p = q

(***************************************************************************)
(* C20: a process that created step1.pid and has ended, by normal exit or  *)
(* by SIGTERM, in single-run or in continuous mode, has not left the file  *)
(* with its pid behind.                                                    *)
(***************************************************************************)
C20_LockRemovedAtExit ==
    pc = "pid" =>
        \A p \in Procs :
            (proc_pc[p] \in {"done", "killed"} /\ lock_created[p])
                => ~(pid_file.exists /\ pid_file.content = p)

(***************************************************************************)
(* C15: a call of fetch_json issues at most 3 requests; after the n-th     *)
(* failed attempt that is followed by another one it has slept             *)
(* 2^(n-1) seconds (1, then 2) and nothing after the last; when 3 attempts *)
(* failed with a network, timeout or HTTP error it returns the mock        *)
(* response; it never ends by an exception.                                *)
(***************************************************************************)
FetchStages == {"request", "backoff", "returned"}

NetworkFailures == {"network_error", "timeout", "http_error"}

C15_ThreeAttemptsThenMock ==
    pc \in FetchStages =>
        /\ requests_made <= 3
        /\ requests_made = Len(responses)
        /\ fetch_result # "raised"
        /\ Len(sleeps) <= 2
        /\ \A i \in 1..Len(sleeps) : sleeps[i] = 2 ^ (i - 1)
        /\ pc = "request" => Len(sleeps) = requests_made
        /\ pc \in {"backoff", "returned"} => Len(sleeps) = requests_made - 1
        /\ pc = "returned" <=> fetch_result # "none"
        /\ (/\ pc = "returned"
            /\ requests_made = 3
            /\ \A i \in 1..3 : responses[i] \in NetworkFailures)
           => fetch_result = "mock"

C15_Witness ==
    /\ pc = "returned"
    /\ responses = <<"timeout", "network_error", "http_error">>
    /\ sleeps = <<1, 2>>
    /\ fetch_result = "mock"

(***************************************************************************)
(* C16: a response whose err is a not-authorized message ends the call on  *)
(* that attempt, whichever of the 3 it is: the call returns the mock       *)
(* response, no request follows it and no sleep follows it.                *)
(***************************************************************************)
C16_NotAuthorizedShortCircuits ==
    pc \in FetchStages =>
        \A i \in 1..Len(responses) :
            responses[i] = "not_authorized"
                => /\ i = Len(responses)
                   /\ pc = "returned"
                   /\ fetch_result = "mock"
                   /\ Len(sleeps) = i - 1

C16_Witness ==
    /\ pc = "returned"
    /\ responses = <<"http_error", "not_authorized">>
    /\ sleeps = <<1>>
    /\ requests_made = 2
    /\ fetch_result = "mock"

(***************************************************************************)
(* C19: with THESPORTS_USER / THESPORTS_SECRET missing from the            *)
(* environment the fetcher stops at start-up: it never gets to issue a     *)
(* request.                                                                *)
(***************************************************************************)
C19_NoRequestWithoutCredentials ==
    (pc \in {"startup"} \cup FetchStages /\ ~env_credentials) =>
        /\ pc = "startup"
        /\ requests_made = 0

(***************************************************************************)
(* C17: with a countries document that is a flat list of {id, name}        *)
(* records or an id-keyed mapping of such records, neither step2.main nor  *)
(* step27's merge raises, and a summary whose competition has the          *)
(* country_id of a record of the document carries that record's name as    *)
(* its country.                                                            *)
(***************************************************************************)
\* The name the document gives the country of the competition of match i;
\* Absent when the match has no competition or the document lacks the
\* country.
DocCountryName(i) ==
    LET detail == FirstDetail(match_details, PyStr(live_matches[i].id)).rec
        comp == FirstCompetition(COMPETITION_INFO, OrDefault(detail.competition_id, Null))
        hits == {k \in 1..Len(countries_doc.records) :
                    countries_doc.records[k].id = OrDefault(comp.country_id, Null)}
    IN  IF hits = {} THEN Absent
        ELSE countries_doc.records[CHOOSE k \in hits : TRUE].name

\* Every match has a detail record, so that merging it meets no other
\* failure than one of the countries document.
AllDetailed == Len(match_details) = Len(live_matches)

C17_BothCountryShapesTolerated ==
    (/\ pc = "step27_done"
     /\ countries_doc.shape \in {"list", "mapping"}
     /\ AllDetailed)
    => /\ ~step2_result.raised
       /\ step27_result.errors = 0
       /\ Len(step2_result.summaries) = Len(live_matches)
       /\ Len(step27_result.summaries) = Len(live_matches)
       /\ \A i \in 1..Len(live_matches) :
             Truthy(DocCountryName(i))
                => /\ step2_result.summaries[i].country = DocCountryName(i)
                   /\ step27_result.summaries[i].country = DocCountryName(i)

(***************************************************************************)
(* C18: with a countries document of the shape the code reads, a match     *)
(* whose merge raises does not cost the batch its other summaries: both    *)
(* step2.main and extract_merge_summarize end without raising and hold one *)
(* summary for every match whose own merge does not raise.                 *)
(***************************************************************************)
\* The matches of the batch that step2's loop merges without raising.
Step2Mergeable ==
    {i \in 1..Len(live_matches) :
        ~MergeOne(live_matches[i], match_details, match_odds, TEAM_INFO,
                  COMPETITION_INFO, country_lookup(countries_doc)).raised}

Step27Mergeable ==
    {i \in 1..Len(live_matches) :
        ~Step27MergeOne(live_matches[i], match_details, COMPETITION_INFO,
                        countries_doc).raised}

C18_RecordFailuresIsolated ==
    (pc = "step27_done" /\ countries_doc.shape = "wrapper")
    => /\ ~step2_result.raised
       /\ \A i \in Step2Mergeable :
             \E k \in 1..Len(step2_result.summaries) :
                 step2_result.summaries[k].match_id = live_matches[i].id
       /\ \A i \in Step27Mergeable :
             \E k \in 1..Len(step27_result.summaries) :
                 step27_result.summaries[k].match_id = live_matches[i].id

(***************************************************************************)
(* C21: for spread, over_under and corners, the fourth element (the        *)
(* handicap or total line) of every American entry is the fourth element   *)
(* of the native entry it was made from, unchanged: positive, negative,    *)
(* zero or null, never a string.                                           *)
(***************************************************************************)
C21_LinePassesThrough ==
    (pc = "array_done" /\ odds_type # "money_line") =>
        LET native == SelectSeq(odds_array, LongEnough)
        IN  /\ Len(american_arrays) = Len(native)
            /\ \A i \in 1..Len(native) :
                  /\ american_arrays[i][4] = native[i][4]
                  /\ american_arrays[i][4].t # "str"

C21_Witness ==
    /\ pc = "array_done"
    /\ odds_type = "spread"
    /\ Len(odds_array) = 1
    /\ LongEnough(odds_array[1])
    /\ odds_array[1][4] = Num(340)
    /\ odds_array[1][3] = Num(85)
    /\ american_arrays[1][4] = Num(340)
    /\ american_arrays[1][3] = Str(<<"-", "1", "1", "8">>)

(***************************************************************************)
(* C22: ids are compared as strings.  When step2.main has run on a         *)
(* countries document of the shape it reads, the summary of a match whose  *)
(* competition has a country_id equal, as a string, to the id of a named   *)
(* record of the document carries that record's name as its country,       *)
(* whether the record's id is a JSON string or a JSON number.              *)
(***************************************************************************)
\* The name of the record whose id, as a string, is the country_id of the
\* competition of match i; Absent when there is none.
CountryNameByStr(i) ==
    LET detail == FirstDetail(match_details, PyStr(live_matches[i].id)).rec
        comp == FirstCompetition(COMPETITION_INFO, OrDefault(detail.competition_id, Null))
        country_id == OrDefault(comp.country_id, Null)
        hits == {k \in 1..Len(countries_doc.records) :
                    /\ Truthy(country_id)
                    /\ PyStr(countries_doc.records[k].id) = PyStr(country_id)}
    IN  IF hits = {} THEN Absent
        ELSE countries_doc.records[CHOOSE k \in hits : TRUE].name

C22_IdsComparedAsStrings ==
    (/\ pc \in {"step2_done", "step27_done"}
     /\ countries_doc.shape = "wrapper"
     /\ ~step2_result.raised)
    => \A i \in 1..Len(step2_result.summaries) :
          Truthy(CountryNameByStr(i))
             => step2_result.summaries[i].country = CountryNameByStr(i)

(***************************************************************************)
(* C23: the result of sort_matches_by_competition_and_time, in step7 and   *)
(* in step27, holds every match of the argument exactly once, in the group *)
(* of its competition name; each group is in the order of the status       *)
(* priority 2,3,4,5,6,7 and then of the match id; the groups are in the    *)
(* lexicographic order of (country name, competition name).                *)
(***************************************************************************)
\* The country a match carries, in its competition dict or at its top
\* level.
CarriedCountry(match_data) ==
    IF match_data.comp_is_dict THEN match_data.comp_country ELSE match_data.country

\* The match carries the name of a country.
CarriesCountryName(match_data) ==
    CarriedCountry(match_data) \notin {Absent, Null, Str(NoneText), Str(UnknownCountry)}

IsPartition(groups) ==
    /\ \A g, h \in 1..Len(groups) : groups[g].comp = groups[h].comp => g = h
    /\ \A i \in 1..Len(matches_dict) :
          \E g \in 1..Len(groups) :
              /\ groups[g].comp = CompName(matches_dict[i].value)
              /\ Cardinality({k \in 1..Len(groups[g].matches) :
                                 groups[g].matches[k] = matches_dict[i]}) = 1
    /\ \A g \in 1..Len(groups) :
          /\ groups[g].matches # <<>>
          /\ \A k \in 1..Len(groups[g].matches) :
                /\ CompName(groups[g].matches[k].value) = groups[g].comp
                /\ \E i \in 1..Len(matches_dict) : matches_dict[i] = groups[g].matches[k]

EachGroupOrdered(groups) ==
    \A g \in 1..Len(groups) :
        \A k, l \in 1..Len(groups[g].matches) :
            k < l =>
                LET a == groups[g].matches[k].value
                    b == groups[g].matches[l].value
                IN  \/ StatusRank(a.status_id) < StatusRank(b.status_id)
                    \/ /\ StatusRank(a.status_id) = StatusRank(b.status_id)
                       /\ StrLess(a.match_id.s, b.match_id.s)

\* Two groups whose matches carry a country name are in the order of
\* (country name, competition name).
GroupsOrderedByCountry(groups) ==
    \A g, h \in 1..Len(groups) :
        LET fg == FirstOfGroup(matches_dict, groups[g].comp)
            fh == FirstOfGroup(matches_dict, groups[h].comp)
        IN  (g < h /\ CarriesCountryName(fg) /\ CarriesCountryName(fh)) =>
                \/ StrLess(CarriedCountry(fg).s, CarriedCountry(fh).s)
                \/ /\ CarriedCountry(fg) = CarriedCountry(fh)
                   /\ StrLess(groups[g].comp.s, groups[h].comp.s)

C23_SortPartitionsAndOrders ==
    pc = "step27_sorted" =>
        /\ IsPartition(step7_groups)
        /\ IsPartition(step27_groups)
        /\ EachGroupOrdered(step7_groups)
        /\ EachGroupOrdered(step27_groups)
        /\ GroupsOrderedByCountry(step7_groups)
        /\ GroupsOrderedByCountry(step27_groups)

(***************************************************************************)
(* C24: in continuous mode an exception of any sub-step of a cycle is      *)
(* caught and the loop goes on: continuous_loop ends only by returning,    *)
(* and returns only after a shutdown was requested.                        *)
(***************************************************************************)
C24_CycleFailuresDoNotEndLoop ==
    /\ pc # "loop_crashed"
    /\ pc = "loop_returned" => shutdown_requested

C24_Witness ==
    /\ pc = "fetch"
    /\ cycle = 3
    /\ caught >= 4
    /\ ~shutdown_requested

(***************************************************************************)
(* C25: once a shutdown is requested, no new cycle is started and the      *)
(* inter-cycle sleep takes no further second; the loop returns only when   *)
(* every cycle it started has run to its end; and it does return.          *)
(***************************************************************************)
C25_GracefulShutdown ==
    /\ [][shutdown_requested => cycle' = cycle]_vars
    /\ [][(shutdown_requested /\ pc = "sleep") => sleep_elapsed' = sleep_elapsed]_vars
    /\ [](pc = "loop_returned" => completed = cycle)
    /\ (shutdown_requested ~> pc = "loop_returned")

C25_Witness ==
    /\ pc = "loop_returned"
    /\ shutdown_requested
    /\ cycle = 2
    /\ completed = 2
    /\ sleep_time = 2
    /\ sleep_elapsed = 1

InPlayNumber == CountByStatus(live_data, 2..7)

C26_InPlayCountAgrees ==
    pc = "counted" =>
        /\ in_play_matches = InPlayNumber
        /\ in_play_matches = footer_in_play
        /\ in_play_matches = step7_total

(***************************************************************************)
(* C27: filter_odds_minutes.filter_odds_by_minutes with its defaults keeps *)
(* only entries whose minute is between 2 and 6 inclusive, so that         *)
(* verify_filtering reports no entry outside 2..6, for every input, also   *)
(* one with two-digit minutes such as 25 or 45.                            *)
(***************************************************************************)
MinuteInWindow(entry) ==
    /\ Len(entry) >= 2
    /\ ParseMinute(entry[2]).ok
    /\ ParseMinute(entry[2]).v \in 2..6

C27_StandaloneFilterKeepsWindow ==
    pc = "minutes_verified" =>
        /\ \A i \in 1..Len(kept_odds) :
              \A j \in 1..Len(kept_odds[i].value) : MinuteInWindow(kept_odds[i].value[j])
        /\ invalid_entries = <<>>

(***************************************************************************)
(* C28: in every summary of step2.merge_and_summarize, for each market the *)
(* American array has as many entries as the native (filtered) array, and  *)
(* its entry i carries the timestamp, minute, status, sealed flag and      *)
(* score of the native entry i, for every shape of entry the minute filter *)
(* lets through.                                                           *)
(***************************************************************************)
SameFrame(native, american) ==
    \A k \in {1, 2, 6, 7, 8} : american[k] = native[k]

Aligned(native, american) ==
    /\ Len(american) = Len(native)
    /\ \A i \in 1..Len(native) : SameFrame(native[i], american[i])

C28_AmericanAlignedWithNative ==
    pc = "odds_summarized" =>
        /\ Aligned(odds_summary.money_line, odds_summary.money_line_american)
        /\ Aligned(odds_summary.spread, odds_summary.spread_american)
        /\ Aligned(odds_summary.over_under, odds_summary.over_under_american)
        /\ Aligned(odds_summary.corners, odds_summary.corners_american)

(***************************************************************************)
(* C30: the score string of step2.extract_summary_fields is "<h>-<a>",     *)
(* h and a being the first elements of home_scores and away_scores, and 0  *)
(* for a side that is missing or empty.                                    *)
(***************************************************************************)
FirstScore(scores) ==
    IF scores.present /\ scores.items # <<>> THEN PyStr(scores.items[1]) ELSE <<"0">>

C30_ScoreFromFirstElements ==
    pc = "score_extracted" =>
        summary_score = FirstScore(home_scores) \o <<"-">> \o FirstScore(away_scores)

====
